---- MODULE Spec2Model ----
(***************************************************************************)
(* Governance engine of src/core/governance: the decision pipeline         *)
(* (engine.py), the decision trace (trace.py), the hash-chained audit log  *)
(* (audit.py), the QoS controller (qos.py), the circuit breaker            *)
(* (circuit_breaker.py) and the policy record (policy.py, modes.py).       *)
(*                                                                         *)
(* Numbers.  Risks, reputations and risk weights are hundredths (0.25 is   *)
(* 25); risk_score and confidence_score are ten-thousandths (the product   *)
(* of a weight and a risk); QoS multipliers are thousandths.               *)
(*                                                                         *)
(* Hashes.  SHA-256 over the canonical JSON of (seq, ts, type, data, prev) *)
(* is modelled as a collision-free function: the digest of a content is    *)
(* the content itself, so two digests are equal iff the contents are.      *)
(*                                                                         *)
(* Object identity.  to_dict() stores the trace's own `reasons` list in    *)
(* the dict handed to the audit chain, so the in-memory entry shares that  *)
(* list with the trace.  An entry records this sharing in `alias` (the     *)
(* index of the trace in `traces`, 0 when the data shares nothing).        *)
(***************************************************************************)
EXTENDS Integers, Sequences, FiniteSets, TLC

VARIABLES
    chain,        \* AuditChain._chain : sequence of AuditEntry
    last_hash,    \* AuditChain._last_hash
    sequence,     \* AuditChain._sequence
    disk,         \* lines of the log file at log_path (<<>>: missing or empty)
    loadOK,       \* outcome of the verification logged by _load_existing
    now,          \* wall clock read by time.time()
    traces,       \* the DecisionTrace objects built so far, in call order
    policy,       \* GovernanceEngine.policy
    policy_hash,  \* GovernanceEngine._policy_hash
    last_qos,     \* GovernanceEngine._last_qos
    qos_cfg,      \* thresholds of the AdaptiveQoSController
    breaker,      \* BreakerStatus of the "ssai" subsystem
    cfg,          \* the policy file at config_path
    held,         \* indices of the traces a caller got back and can override
    request,      \* the intent and actor reputation the client submits
    admin,        \* number of administrative steps taken so far
    fault,        \* the one fault the environment injected into the log file
    workers,      \* the calls in flight on parallel workers: position and locals
    streak,       \* failures recorded on the breaker since it last was reset
    panic,        \* PanicSwitch: _state and auto_clear_s
    lock,         \* the lock file at lock_path: present or not, and its body
    loop,         \* FeedbackLoop: _state and the observation buffers
    collector,    \* MetricsCollector the feedback loop feeds
    acted,        \* time of the latest action evaluate returned (-1: none yet)
    ret           \* the last call: operation, arguments, result

vars == <<chain, last_hash, sequence, disk, loadOK, now, traces, policy,
          policy_hash, last_qos, qos_cfg, breaker, cfg, held, request,
          admin, fault, workers, streak, panic, lock, loop, collector, acted,
          ret>>

auditVars == <<chain, last_hash, sequence, disk, loadOK, fault>>
panicVars == <<panic, lock>>
sideVars == <<loop, collector, acted, panicVars>>
auxVars == <<workers, streak, sideVars>>
engineVars == <<traces, policy, policy_hash, last_qos, qos_cfg, breaker, cfg,
                held, request, admin, auxVars>>

(***************************************************************************)
(* Bounds                                                                  *)
(***************************************************************************)
MaxChain == 2     \* longest audit chain explored
MaxAdmin == 1     \* administrative steps (config edit, QoS update, breaker force)
MaxLog == 3       \* longest chain of the audit log taken alone

(***************************************************************************)
(* audit.py                                                                *)
(***************************************************************************)
GENESIS_HASH == <<>>

FORGED_HASH == <<-1>>

EventTypes == {"decision", "policy_reload", "panic", "override"}

\* The data an entry holds now: the dict stored at append time, with the
\* shared `reasons` list read through the trace that owns it.
CurData(e, trs) ==
    IF e.alias = 0 THEN e.data
    ELSE [e.data EXCEPT !.reasons = trs[e.alias].reasons]

Sha256(seq, ts, type, data, prev) == <<seq, ts, type, data, prev>>

compute_hash(e, trs) ==
    Sha256(e.sequence, e.timestamp, e.event_type, CurData(e, trs), e.prev_hash)

\* Variant of NewEntry: every entry is linked to the genesis hash.
NewEntry_GenesisPrev(seq, ts, type, data, alias, prev, trs) ==
    LET e0 == [sequence |-> seq, timestamp |-> ts, event_type |-> type,
               data |-> data, alias |-> alias, prev_hash |-> GENESIS_HASH,
               entry_hash |-> GENESIS_HASH]
    IN [e0 EXCEPT !.entry_hash = compute_hash(e0, trs)]

\* AuditEntry built by append(): the entry, hashed over its present content.
NewEntry(seq, ts, type, data, alias, prev, trs) ==
    LET e0 == [sequence |-> seq, timestamp |-> ts, event_type |-> type,
               data |-> data, alias |-> alias, prev_hash |-> prev,
               entry_hash |-> GENESIS_HASH]
    IN [e0 EXCEPT !.entry_hash = compute_hash(e0, trs)]

\* The JSON record _persist writes for an entry: a snapshot of its content.
Record(e, trs) ==
    [ok |-> TRUE, seq |-> e.sequence, ts |-> e.timestamp, type |-> e.event_type,
     data |-> CurData(e, trs), prev_hash |-> e.prev_hash, hash |-> e.entry_hash]

\* The AuditEntry _load_existing builds from a parsed record.
EntryOf(r) ==
    [sequence |-> r.seq, timestamp |-> r.ts, event_type |-> r.type,
     data |-> r.data, alias |-> 0, prev_hash |-> r.prev_hash,
     entry_hash |-> r.hash]

\* Outcomes of _persist: the record is written, open()/write() raises OSError
\* (caught and logged), or os.makedirs raises (not caught).
IoOutcomes == {"written", "oserror", "makedirs_raises"}

Persist(d, e, trs, io) ==
    IF io = "written" THEN Append(d, Record(e, trs)) ELSE d

PersistRaises(io) == io = "makedirs_raises"

\* Variant of FirstBad: only the links are checked, not the self-hashes.
FirstBad_LinksOnly(c, trs) ==
    LET bads == {i \in 2..Len(c) : c[i].prev_hash # c[i - 1].entry_hash}
    IN IF bads = {} THEN 0
       ELSE CHOOSE i \in bads : \A j \in bads : i <= j

\* Index of the first offending entry, 0 when there is none.
FirstBad(c, trs) ==
    LET Bad(i) == \/ c[i].entry_hash # compute_hash(c[i], trs)
                  \/ (i > 1 /\ c[i].prev_hash # c[i - 1].entry_hash)
        bads == {i \in 1..Len(c) : Bad(i)}
    IN IF bads = {} THEN 0
       ELSE CHOOSE i \in bads : \A j \in bads : i <= j

\* Variant of verify_chain: the offending entry is reported by its sequence
\* number instead of its position in the chain.
verify_chain_ReportsSequence(c, trs) ==
    IF c = <<>> THEN <<TRUE, -1>>
    ELSE IF c[1].prev_hash # GENESIS_HASH THEN <<FALSE, c[1].sequence>>
    ELSE IF FirstBad(c, trs) # 0 THEN <<FALSE, c[FirstBad(c, trs)].sequence>>
    ELSE <<TRUE, -1>>

\* verify_chain(): <<TRUE, -1>> for (True, None), <<FALSE, i>> for
\* (False, i) with i counted from 0 as in the source.
verify_chain(c, trs) ==
    IF c = <<>> THEN <<TRUE, -1>>
    ELSE IF c[1].prev_hash # GENESIS_HASH THEN <<FALSE, 0>>
    ELSE IF FirstBad(c, trs) # 0 THEN <<FALSE, FirstBad(c, trs) - 1>>
    ELSE <<TRUE, -1>>

\* The longest prefix of the file whose lines parse.
RECURSIVE ParsedPrefix(_)
ParsedPrefix(d) ==
    IF d = <<>> THEN <<>>
    ELSE IF ~Head(d).ok THEN <<>>
    ELSE <<EntryOf(Head(d))>> \o ParsedPrefix(Tail(d))

AllParse(d) == \A i \in 1..Len(d) : d[i].ok

\* State of a chain after _load_existing read the file d.
LoadChain(d) == ParsedPrefix(d)

LoadLastHash(d) ==
    LET c == LoadChain(d)
    IN IF c = <<>> THEN GENESIS_HASH ELSE c[Len(c)].entry_hash

\* Variant of LoadSequence: _sequence = entry.sequence, without the + 1.
LoadSequence_NoIncrement(d) ==
    LET c == LoadChain(d)
    IN IF c = <<>> THEN 0 ELSE c[Len(c)].sequence

LoadSequence(d) ==
    LET c == LoadChain(d)
    IN IF c = <<>> THEN 0 ELSE c[Len(c)].sequence + 1

\* What the load reports: the verification result, or TRUE when the file is
\* missing or a line failed to parse (verification is not reached then).
LoadVerdict(d) ==
    IF d = <<>> \/ ~AllParse(d) THEN TRUE
    ELSE verify_chain(LoadChain(d), <<>>)[1]

(***************************************************************************)
(* modes.py, policy.py                                                     *)
(***************************************************************************)
Modes == {"DEVELOPMENT", "PRODUCTION", "PARANOID", "FORENSIC"}
Postures == {"OPEN", "GUARDED", "HARDENED", "LOCKDOWN"}
Profiles == {"ECO", "BALANCED", "TURBO"}

\* SECURITY_PRESETS: posture -> overrides applied at decision time.
SECURITY_PRESETS ==
    [p \in Postures |->
        CASE p = "OPEN"     -> [require_signed_intents |-> FALSE, min_reputation |-> 0]
          [] p = "GUARDED"  -> [require_signed_intents |-> TRUE,  min_reputation |-> 20]
          [] p = "HARDENED" -> [require_signed_intents |-> TRUE,  min_reputation |-> 40]
          [] p = "LOCKDOWN" -> [require_signed_intents |-> TRUE,  min_reputation |-> 60]]

\* RuntimePolicy.default(mode).  Only the fields some operation reads are
\* kept (cognitive_speed, ssai_*, quorum_ratio, consensus_timeout_ms,
\* p2p_rate_limit, sandbox_strictness, max_parallel_intents are stored by the
\* source and never read by it).
DefaultPolicy(mode) ==
    CASE mode = "DEVELOPMENT" ->
            [mode |-> mode, security_posture |-> "OPEN",
             performance_profile |-> "TURBO", max_fuel_per_intent |-> 1000000,
             require_signed_intents |-> FALSE, min_reputation |-> 0,
             queue_backpressure_threshold |-> 200, adaptive_throttling |-> FALSE,
             allow_manual_override |-> TRUE, risk_weight_semantic |-> 50,
             risk_weight_behavioral |-> 30, risk_weight_reputation |-> 20]
      [] mode = "PARANOID" ->
            [mode |-> mode, security_posture |-> "LOCKDOWN",
             performance_profile |-> "BALANCED", max_fuel_per_intent |-> 50000,
             require_signed_intents |-> TRUE, min_reputation |-> 50,
             queue_backpressure_threshold |-> 20, adaptive_throttling |-> TRUE,
             allow_manual_override |-> FALSE, risk_weight_semantic |-> 60,
             risk_weight_behavioral |-> 25, risk_weight_reputation |-> 15]
      [] mode = "FORENSIC" ->
            [mode |-> mode, security_posture |-> "LOCKDOWN",
             performance_profile |-> "ECO", max_fuel_per_intent |-> 0,
             require_signed_intents |-> TRUE, min_reputation |-> 80,
             queue_backpressure_threshold |-> 5, adaptive_throttling |-> FALSE,
             allow_manual_override |-> TRUE, risk_weight_semantic |-> 50,
             risk_weight_behavioral |-> 30, risk_weight_reputation |-> 20]
      [] OTHER ->
            [mode |-> mode, security_posture |-> "GUARDED",
             performance_profile |-> "BALANCED", max_fuel_per_intent |-> 500000,
             require_signed_intents |-> TRUE, min_reputation |-> 20,
             queue_backpressure_threshold |-> 100, adaptive_throttling |-> TRUE,
             allow_manual_override |-> TRUE, risk_weight_semantic |-> 50,
             risk_weight_behavioral |-> 30, risk_weight_reputation |-> 20]

(***************************************************************************)
(* circuit_breaker.py                                                      *)
(***************************************************************************)
failure_threshold == 5
recovery_timeout_s == 30
half_open_max_probes == 1

\* BreakerStatus as register() creates it at time t.
NewBreaker(t) ==
    [state |-> "CLOSED", failure_count |-> 0, success_count |-> 0,
     last_failure_time |-> 0, last_state_change |-> t, total_trips |-> 0]

\* Variant of _transition: success_count survives the change of state.
Transition_KeepCount(b, new_state, t) ==
    [b EXCEPT !.state = new_state, !.last_state_change = t]

\* Variant of _transition: last_state_change keeps the older time.
Transition_NoStamp(b, new_state, t) ==
    [b EXCEPT !.state = new_state, !.success_count = 0]

Transition(b, new_state, t) ==
    [b EXCEPT !.state = new_state, !.success_count = 0, !.last_state_change = t]

\* Variant of is_healthy: every subsystem counts as healthy.
is_healthy_Always(b) == TRUE

is_healthy(b) == b.state # "OPEN"

\* Variant of allow_request: an OPEN breaker lets a probe through at once.
allow_request_NoTimeout(b, t) ==
    IF b.state = "CLOSED" THEN <<TRUE, b>>
    ELSE IF b.state = "OPEN" THEN <<TRUE, Transition(b, "HALF_OPEN", t)>>
    ELSE <<b.success_count < half_open_max_probes, b>>

\* allow_request: <<answer, breaker afterwards>>.
allow_request(b, t) ==
    IF b.state = "CLOSED" THEN <<TRUE, b>>
    ELSE IF b.state = "OPEN" THEN
        IF t - b.last_state_change >= recovery_timeout_s
        THEN <<TRUE, Transition(b, "HALF_OPEN", t)>>
        ELSE <<FALSE, b>>
    ELSE <<b.success_count < half_open_max_probes, b>>

\* Variant of record_success: a success while CLOSED resets nothing.
record_success_NoReset(b, t) ==
    IF b.state = "HALF_OPEN" THEN
        LET b1 == [b EXCEPT !.success_count = @ + 1]
        IN IF b1.success_count >= half_open_max_probes
           THEN [Transition(b1, "CLOSED", t) EXCEPT !.failure_count = 0]
           ELSE b1
    ELSE b

record_success(b, t) ==
    IF b.state = "HALF_OPEN" THEN
        LET b1 == [b EXCEPT !.success_count = @ + 1]
        IN IF b1.success_count >= half_open_max_probes
           THEN [Transition(b1, "CLOSED", t) EXCEPT !.failure_count = 0]
           ELSE b1
    ELSE IF b.state = "CLOSED" THEN [b EXCEPT !.failure_count = 0]
    ELSE b

record_failure(b, t) ==
    LET b1 == [b EXCEPT !.failure_count = @ + 1, !.last_failure_time = t]
    IN IF b1.state = "HALF_OPEN" THEN Transition(b1, "OPEN", t)
       ELSE IF b1.state = "CLOSED" /\ b1.failure_count >= failure_threshold
       THEN [Transition(b1, "OPEN", t) EXCEPT !.total_trips = @ + 1]
       ELSE b1

force_open(b, t) == [Transition(b, "OPEN", t) EXCEPT !.total_trips = @ + 1]

\* Variant of force_close: the failures counted so far are kept.
force_close_KeepFailures(b, t) == Transition(b, "CLOSED", t)

force_close(b, t) == [Transition(b, "CLOSED", t) EXCEPT !.failure_count = 0]

(***************************************************************************)
(* qos.py                                                                  *)
(***************************************************************************)
cpu_threshold == 85
memory_threshold == 90
latency_threshold_ms == 200
packet_loss_threshold == 10

Min(a, b) == IF a <= b THEN a ELSE b
Max(a, b) == IF a >= b THEN a ELSE b

\* float('inf') as a metric value: greater than every threshold.
INF == 10 ^ 8

\* num / den as a multiplier in thousandths; a finite number over inf is 0.0.
Quotient(num, den) == IF den = INF THEN 0 ELSE (1000 * num) \div den

\* QoSAdjustment() as constructed with its defaults.
DefaultQoS ==
    [speed_multiplier |-> 1000, fuel_multiplier |-> 1000,
     rate_limit_multiplier |-> 1000, shed_low_priority |-> FALSE,
     load_level |-> "normal", reasons |-> <<>>]

classify_load(m, shed, q) ==
    IF shed THEN "overload"
    ELSE IF m.cpu_usage > cpu_threshold \/ m.queue_depth > q.backpressure_threshold
    THEN "critical"
    ELSE IF m.cpu_usage > 70 \/ m.avg_latency_ms * 10 > latency_threshold_ms * 8
    THEN "elevated"
    ELSE IF m.cpu_usage > 30 THEN "normal"
    ELSE "idle"

\* AdaptiveQoSController.evaluate: the five rules in order, each lowering a
\* multiplier with min(); percentages are hundredths, multipliers thousandths.
qos_evaluate(m, q) ==
    LET cpu  == m.cpu_usage > cpu_threshold
        mem  == m.memory_usage > memory_threshold
        que  == m.queue_depth > q.backpressure_threshold
        lat  == m.avg_latency_ms > latency_threshold_ms
        loss == m.p2p_packet_loss > packet_loss_threshold
        s1 == IF cpu THEN Min(1000, 600) ELSE 1000
        f1 == IF cpu THEN Min(1000, 500) ELSE 1000
        f2 == IF mem THEN Min(f1, 300) ELSE f1
        r3 == IF que THEN Min(1000, Quotient(q.backpressure_threshold, m.queue_depth))
              ELSE 1000
        shed == que /\ m.queue_depth > 2 * q.backpressure_threshold
        s4 == IF lat THEN Min(s1, Quotient(latency_threshold_ms, m.avg_latency_ms))
              ELSE s1
        r5 == IF loss THEN Min(r3, 500) ELSE r3
        reasons == (IF cpu THEN <<"cpu">> ELSE <<>>)
                   \o (IF mem THEN <<"memory">> ELSE <<>>)
                   \o (IF que THEN <<"queue">> ELSE <<>>)
                   \o (IF lat THEN <<"latency">> ELSE <<>>)
                   \o (IF loss THEN <<"packet_loss">> ELSE <<>>)
    IN [speed_multiplier |-> s4, fuel_multiplier |-> f2,
        rate_limit_multiplier |-> r5, shed_low_priority |-> shed,
        load_level |-> classify_load(m, shed, q), reasons |-> reasons]

(***************************************************************************)
(* observability/panic.py                                                  *)
(*                                                                         *)
(* The lock file is [exists, content]; content is the body after strip().  *)
(* File operations have an outcome the environment chooses: "ok" or        *)
(* "oserror" (caught and logged by the code), and for makedirs "raises".   *)
(***************************************************************************)
DefaultFileReason == "External trigger (panic.lock detected)"

NoLock == [exists |-> FALSE, content |-> ""]

\* PanicState() held by a PanicSwitch(auto_clear_s = a).
NewPanic(a) ==
    [active |-> FALSE, reason |-> "", activated_at |-> 0, activated_by |-> "",
     auto_clear_after_s |-> 0, auto_clear_s |-> a]

\* json.dumps of the reason, the activation time and the source.
JsonOf(reason) == IF reason = "breach" THEN "{\"reason\": \"breach\"}"
                  ELSE "{\"reason\": \"drill\"}"

\* _check_file_trigger(): a present lock file activates an inactive switch.
check_file_trigger_Ignore(p, l, t, read) == p

check_file_trigger(p, l, t, read) ==
    IF l.exists /\ ~p.active
    THEN [p EXCEPT !.active = TRUE,
                   !.reason = IF read = "ok" /\ l.content # ""
                              THEN l.content ELSE DefaultFileReason,
                   !.activated_at = t,
                   !.activated_by = "file",
                   !.auto_clear_after_s = p.auto_clear_s]
    ELSE p

\* _remove_lock_file(): a failed os.remove is logged and the file stays.
remove_lock_file(l, outcome) ==
    IF l.exists /\ outcome = "ok" THEN NoLock ELSE l

\* deactivate(operator): <<state, lock file>>.
deactivate(p, l, outcome) ==
    IF ~p.active THEN <<p, l>>
    ELSE <<[p EXCEPT !.active = FALSE], remove_lock_file(l, outcome)>>

\* The auto-clear test of check().
AutoClearDue(p, t) ==
    p.active /\ p.auto_clear_after_s > 0 /\ t - p.activated_at > p.auto_clear_after_s

\* check(): <<is_active, state, lock file>>.
panic_check(p, l, t, read, outcome) ==
    LET q == check_file_trigger(p, l, t, read)
        r == IF AutoClearDue(q, t) THEN deactivate(q, l, outcome) ELSE <<q, l>>
    IN <<r[1].active, r[1], r[2]>>

\* _write_lock_file(reason): a failed open is logged and nothing is written.
write_lock_file(l, reason, outcome) ==
    IF outcome = "ok" THEN [exists |-> TRUE, content |-> JsonOf(reason)] ELSE l

\* activate(reason, source): <<state, lock file>>; when makedirs raises,
\* the state is already replaced and the file is not written.
activate(p, l, reason, source, t, outcome) ==
    <<[p EXCEPT !.active = TRUE, !.reason = reason, !.activated_at = t,
                !.activated_by = source,
                !.auto_clear_after_s = p.auto_clear_s],
      write_lock_file(l, reason, outcome)>>

\* No panic switch in play: constructed without auto-clear, no lock file.
PanicIdle == panic = NewPanic(0) /\ lock = NoLock

(***************************************************************************)
(* feedback.py, observability/metrics.py                                   *)
(*                                                                         *)
(* The two observation deques hold the same timestamps; they are kept as   *)
(* one sequence of bursts [ts, n, rejected, latency_ms]: n calls of        *)
(* observe within one reading of the clock, `rejected` of them with        *)
(* rejected = True, each with the same latency.  Rates are fractions       *)
(* <<numerator, denominator>>, compared by cross-multiplication; None is   *)
(* <<>>.  CPU usage and the rate thresholds are hundredths.                *)
(***************************************************************************)
cpu_overload_threshold == 85
cpu_idle_threshold == 20
latency_overload_ms == 2000
latency_healthy_ms == 500
rejection_rate_lockdown == 40
rejection_rate_recovery == 5
cooldown_s == 60
min_observations == 20
observation_window_s == 300

\* FeedbackState() and the empty buffers.
NewLoop ==
    [last_adaptation_time |-> 0, total_adaptations |-> 0, last_action |-> "none",
     current_avg_latency_ms |-> <<>>, current_rejection_rate |-> <<>>,
     current_cpu_usage |-> <<>>, in_cooldown |-> FALSE, buffer |-> <<>>]

\* MetricsCollector(): no counter, no histogram.
NewCollector ==
    [intents_total |-> 0, intents_rejected |-> 0, intents_approved |-> 0,
     intent_latency_ms |-> <<>>]

\* The feedback loop and its collector as constructed, nothing observed.
FeedbackIdle == loop = NewLoop /\ collector = NewCollector /\ acted = -1

SidecarsIdle == FeedbackIdle /\ PanicIdle

\* FeedbackAction; None is the action named "none".
FeedbackAction(name, performance, security) ==
    [name |-> name, performance |-> performance, security |-> security]

NoAction == FeedbackAction("none", "", "")

RECURSIVE SumOver(_, _)
SumOver(bursts, field) ==
    IF bursts = <<>> THEN 0
    ELSE (IF field = "n" THEN Head(bursts).n
          ELSE IF field = "rejected" THEN Head(bursts).rejected
          ELSE Head(bursts).n * Head(bursts).latency_ms)
         + SumOver(Tail(bursts), field)

RECURSIVE Recent(_, _)
\* [v for ts, v in buffer if ts >= cutoff]
Recent(bursts, cutoff) ==
    IF bursts = <<>> THEN <<>>
    ELSE (IF Head(bursts).ts >= cutoff THEN <<Head(bursts)>> ELSE <<>>)
         \o Recent(Tail(bursts), cutoff)

\* observe, n times at clock t: both deques and the collector's counters
\* and histogram.
observe_loop(lp, t, n, rejected, latency_ms) ==
    [lp EXCEPT !.buffer = Append(@, [ts |-> t, n |-> n, rejected |-> rejected,
                                     latency_ms |-> latency_ms])]

observe_collector(c, t, n, rejected, latency_ms) ==
    [c EXCEPT !.intents_total = @ + n,
              !.intents_rejected = @ + rejected,
              !.intents_approved = @ + (n - rejected),
              !.intent_latency_ms = Append(@, [ts |-> t, n |-> n,
                                               latency_ms |-> latency_ms])]

\* Variant of _make_action: the time of the adaptation is not stamped.
make_action_NoStamp(lp, name, t) ==
    [lp EXCEPT !.total_adaptations = @ + 1, !.last_action = name]

\* _make_action: the state it leaves.
make_action(lp, name, t) ==
    [lp EXCEPT !.last_adaptation_time = t, !.total_adaptations = @ + 1,
               !.last_action = name]

\* _evaluate_performance: the action it proposes, NoAction for None.
evaluate_performance(current, cpu_usage, lat_sum, lat_len) ==
    IF (cpu_usage > cpu_overload_threshold \/ lat_sum > latency_overload_ms * lat_len)
       /\ current # "ECO"
    THEN FeedbackAction("performance_downshift", "ECO", "")
    ELSE IF cpu_usage < cpu_idle_threshold
            /\ lat_sum < latency_healthy_ms * lat_len
            /\ current = "ECO"
    THEN FeedbackAction("performance_upshift", "BALANCED", "")
    ELSE NoAction

\* Variant of _evaluate_security: recovery as soon as the rate is no longer
\* above the lockdown threshold.
evaluate_security_NoHysteresis(current, rej_sum, rej_len) ==
    IF 100 * rej_sum > rejection_rate_lockdown * rej_len /\ current # "LOCKDOWN"
    THEN FeedbackAction("security_lockdown", "", "LOCKDOWN")
    ELSE IF 100 * rej_sum <= rejection_rate_lockdown * rej_len
            /\ current = "LOCKDOWN"
    THEN FeedbackAction("security_recovery", "", "GUARDED")
    ELSE NoAction

\* _evaluate_security: the action it proposes, NoAction for None.
evaluate_security(current, rej_sum, rej_len) ==
    IF 100 * rej_sum > rejection_rate_lockdown * rej_len /\ current # "LOCKDOWN"
    THEN FeedbackAction("security_lockdown", "", "LOCKDOWN")
    ELSE IF 100 * rej_sum < rejection_rate_recovery * rej_len
            /\ current = "LOCKDOWN"
    THEN FeedbackAction("security_recovery", "", "GUARDED")
    ELSE NoAction

\* Variant of evaluate: the security adaptation is tried first.
feedback_evaluate_SecurityFirst(lp, current_performance, current_security, cpu_usage, t) ==
    IF t - lp.last_adaptation_time < cooldown_s /\ lp.last_adaptation_time > 0
    THEN <<NoAction, [lp EXCEPT !.in_cooldown = TRUE]>>
    ELSE
      LET lp1 == [lp EXCEPT !.in_cooldown = FALSE]
          recent == Recent(lp.buffer, t - observation_window_s)
          len == SumOver(recent, "n")
          lat_sum == SumOver(recent, "latency")
          rej_sum == SumOver(recent, "rejected")
          lp2 == [lp1 EXCEPT !.current_avg_latency_ms = <<lat_sum, len>>,
                             !.current_rejection_rate = <<rej_sum, len>>,
                             !.current_cpu_usage = <<cpu_usage>>]
          perf == evaluate_performance(current_performance, cpu_usage, lat_sum, len)
          sec == evaluate_security(current_security, rej_sum, len)
      IN IF len < min_observations THEN <<NoAction, lp1>>
         ELSE IF sec # NoAction THEN <<sec, make_action(lp2, sec.name, t)>>
         ELSE IF perf # NoAction THEN <<perf, make_action(lp2, perf.name, t)>>
         ELSE <<NoAction, lp2>>

\* FeedbackLoop.evaluate at clock t: <<action returned, loop afterwards>>.
feedback_evaluate(lp, current_performance, current_security, cpu_usage, t) ==
    IF t - lp.last_adaptation_time < cooldown_s /\ lp.last_adaptation_time > 0
    THEN <<NoAction, [lp EXCEPT !.in_cooldown = TRUE]>>
    ELSE
      LET lp1 == [lp EXCEPT !.in_cooldown = FALSE]
          recent == Recent(lp.buffer, t - observation_window_s)
          len == SumOver(recent, "n")
          lat_sum == SumOver(recent, "latency")
          rej_sum == SumOver(recent, "rejected")
          lp2 == [lp1 EXCEPT !.current_avg_latency_ms = <<lat_sum, len>>,
                             !.current_rejection_rate = <<rej_sum, len>>,
                             !.current_cpu_usage = <<cpu_usage>>]
          perf == evaluate_performance(current_performance, cpu_usage, lat_sum, len)
          sec == evaluate_security(current_security, rej_sum, len)
      IN IF len < min_observations THEN <<NoAction, lp1>>
         ELSE IF perf # NoAction THEN <<perf, make_action(lp2, perf.name, t)>>
         ELSE IF sec # NoAction THEN <<sec, make_action(lp2, sec.name, t)>>
         ELSE <<NoAction, lp2>>

(***************************************************************************)
(* trace.py                                                                *)
(***************************************************************************)
Reason(kind, args) == [kind |-> kind, args |-> args]

\* intent_data.get(key, default).  An intent lists the keys it lacks in
\* `missing`, and in `bad` the keys whose value has another type than the
\* pipeline expects (an action without lower(), a count or a fuel amount
\* that does not compare with a number).
IntentGet(intent, key, default) ==
    IF key \in intent.missing THEN default ELSE intent[key]

IsBad(intent, key) == key \in intent.bad /\ key \notin intent.missing

\* DecisionTrace as evaluate_intent constructs it.
NewTrace(intent, rep, pol, qos, ts) ==
    [intent_id |-> IntentGet(intent, "id", "unknown"), timestamp |-> ts,
     mode_snapshot |-> pol.mode, security_posture |-> pol.security_posture,
     performance_profile |-> pol.performance_profile,
     risk_score |-> 0, semantic_risk |-> 0, behavioral_risk |-> 0,
     actor_reputation |-> rep, confidence_score |-> 0,
     recommended_action |-> "", load_level |-> qos.load_level,
     qos_adjusted |-> (qos.reasons # <<>>), decision |-> "PENDING",
     reasons |-> <<>>, overridden |-> FALSE, override_by |-> "",
     override_justification |-> ""]

add_reason(t, r) == [t EXCEPT !.reasons = Append(@, r)]

RecommendedAction(conf) ==
    IF conf >= 8000 THEN "safe_execution"
    ELSE IF conf >= 6000 THEN "monitor"
    ELSE IF conf >= 4000 THEN "manual_review"
    ELSE "block"

\* compute_confidence; quorum_score in hundredths.  The uncertainty (a
\* standard deviation no operation reads) is not kept.
compute_confidence(t, w_semantic, w_behavioral, w_reputation, quorum_score) ==
    LET weighted_risk == w_semantic * t.semantic_risk
                         + w_behavioral * t.behavioral_risk
                         + w_reputation * (100 - t.actor_reputation)
        risk == Min(Max(weighted_risk, 0), 10000)
        conf == ((10000 - risk) * quorum_score) \div 100
    IN [t EXCEPT !.risk_score = risk, !.confidence_score = conf,
                 !.recommended_action = RecommendedAction(conf)]

\* Variant of apply_override: the decision is left as it was.
apply_override_KeepDecision(t, operator, new_decision, justification) ==
    [t EXCEPT !.overridden = TRUE, !.override_by = operator,
              !.override_justification = justification,
              !.reasons = Append(@, [kind |-> "HUMAN OVERRIDE",
                                     by |-> operator, just |-> justification])]

apply_override(t, operator, new_decision, justification) ==
    [t EXCEPT !.overridden = TRUE, !.override_by = operator,
              !.override_justification = justification,
              !.decision = new_decision,
              !.reasons = Append(@, [kind |-> "HUMAN OVERRIDE",
                                     by |-> operator, just |-> justification])]

to_dict(t) ==
    [intent_id |-> t.intent_id, timestamp |-> t.timestamp,
     mode |-> t.mode_snapshot, security_posture |-> t.security_posture,
     performance_profile |-> t.performance_profile, decision |-> t.decision,
     risk_score |-> t.risk_score, confidence_score |-> t.confidence_score,
     recommended_action |-> t.recommended_action,
     semantic_risk |-> t.semantic_risk, behavioral_risk |-> t.behavioral_risk,
     actor_reputation |-> t.actor_reputation, load_level |-> t.load_level,
     qos_adjusted |-> t.qos_adjusted, overridden |-> t.overridden,
     override_by |-> t.override_by, reasons |-> t.reasons]

(***************************************************************************)
(* engine.py : the decision pipeline                                       *)
(***************************************************************************)
high_risk_actions == {"delete", "drop", "kill", "override", "bypass"}

\* str.lower() on the action names the model draws.
Lower(a) ==
    CASE a = "DELETE" -> "delete"
      [] a = "Kill"   -> "kill"
      [] OTHER        -> a

assess_semantic_risk(intent) ==
    Min((IF Lower(IntentGet(intent, "action", "")) \in high_risk_actions
         THEN 50 ELSE 0)
        + (IF IntentGet(intent, "requires_admin", FALSE) THEN 20 ELSE 0)
        + (IF ~IntentGet(intent, "scope", FALSE) THEN 10 ELSE 0), 100)

assess_behavioral_risk(intent) ==
    Min((IF IntentGet(intent, "burst_count", 0) > 10 THEN 40 ELSE 0)
        + (IF IntentGet(intent, "off_hours", FALSE) THEN 20 ELSE 0), 100)

\* Variants of the first two gates: the check is missing.
PanicGate_Off(is_panic) == FALSE

ForensicGate_Off(pol) == FALSE

\* The gates of evaluate_intent, each TRUE when the gate rejects.
PanicGate(is_panic) == is_panic

ForensicGate(pol) == pol.mode = "FORENSIC"

\* Variant of ShedGate: nothing is shed.
ShedGate_Off(qos, intent) == FALSE

ShedGate(qos, intent) ==
    qos.shed_low_priority /\ IntentGet(intent, "priority", "normal") = "low"

\* Variant of RequireSig: the policy field decides, not the preset.
RequireSig_FromPolicy(pol) == pol.require_signed_intents

\* sec_preset.get("require_signed_intents", policy.require_signed_intents)
RequireSig(pol) ==
    LET sec_preset == SECURITY_PRESETS[pol.security_posture]
    IN IF "require_signed_intents" \in DOMAIN sec_preset
       THEN sec_preset.require_signed_intents
       ELSE pol.require_signed_intents

SignatureGate(pol, intent) ==
    RequireSig(pol) /\ ~IntentGet(intent, "signature", FALSE)

\* sec_preset.get("min_reputation", policy.min_reputation)
MinRep(pol) ==
    LET sec_preset == SECURITY_PRESETS[pol.security_posture]
    IN IF "min_reputation" \in DOMAIN sec_preset
       THEN sec_preset.min_reputation
       ELSE pol.min_reputation

ReputationGate(pol, rep) == rep < MinRep(pol)

EffectiveFuel(pol, qos) == (pol.max_fuel_per_intent * qos.fuel_multiplier) \div 1000

FuelGate(pol, qos, intent) ==
    IntentGet(intent, "fuel_estimate", 0) > EffectiveFuel(pol, qos)

Reject(t, r) == add_reason([t EXCEPT !.decision = "REJECTED"], r)

\* Variant of Decide: the thresholds are exclusive (> instead of >=).
Decide_Exclusive(t, pol) ==
    LET c == compute_confidence(t, pol.risk_weight_semantic,
                                pol.risk_weight_behavioral,
                                pol.risk_weight_reputation, 100)
    IN IF c.confidence_score > 7000 THEN [c EXCEPT !.decision = "APPROVED"]
       ELSE IF c.confidence_score > 4000
       THEN add_reason([c EXCEPT !.decision = "QUARANTINED"],
                       Reason("quarantined", <<c.confidence_score>>))
       ELSE add_reason([c EXCEPT !.decision = "REJECTED"],
                       Reason("below threshold", <<c.confidence_score>>))

\* Steps 10-11: weighted aggregation, then the thresholds on confidence.
\* The source computes in binary floating point, the model in exact
\* hundredths; the requests drawn are those for which both give the same
\* side of each threshold (the points 0.7 and 0.4 themselves included).
Decide(t, pol) ==
    LET c == compute_confidence(t, pol.risk_weight_semantic,
                                pol.risk_weight_behavioral,
                                pol.risk_weight_reputation, 100)
    IN IF c.confidence_score >= 7000 THEN [c EXCEPT !.decision = "APPROVED"]
       ELSE IF c.confidence_score >= 4000
       THEN add_reason([c EXCEPT !.decision = "QUARANTINED"],
                       Reason("quarantined", <<c.confidence_score>>))
       ELSE add_reason([c EXCEPT !.decision = "REJECTED"],
                       Reason("below threshold", <<c.confidence_score>>))

\* TRUE when the call gets past the gates of steps 1-6.
PassesGates(intent, rep, is_panic, pol, qos) ==
    /\ ~PanicGate(is_panic)
    /\ ~ForensicGate(pol)
    /\ ~ShedGate(qos, intent)
    /\ ~SignatureGate(pol, intent)
    /\ ~ReputationGate(pol, rep)

\* TRUE when the call reaches step 7 with a healthy breaker, i.e. when
\* _assess_semantic_risk runs.
ReachesSemantic(intent, rep, is_panic, pol, qos, brk) ==
    PassesGates(intent, rep, is_panic, pol, qos) /\ is_healthy(brk)

\* The exception steps 7-9 raise on a value of the wrong type, "" when they
\* raise none: action.lower() in _assess_semantic_risk, burst_count > 10 in
\* _assess_behavioral_risk, estimated_fuel > effective_fuel in step 9.
RaisedError(intent, rep, is_panic, pol, qos, brk) ==
    IF ~PassesGates(intent, rep, is_panic, pol, qos) THEN ""
    ELSE IF is_healthy(brk) /\ IsBad(intent, "action") THEN "AttributeError"
    ELSE IF IsBad(intent, "burst_count") THEN "TypeError"
    ELSE IF IsBad(intent, "fuel_estimate") THEN "TypeError"
    ELSE ""

\* TRUE when _assess_semantic_risk runs to its end and records a success on
\* the breaker.
RecordsSuccess(intent, rep, is_panic, pol, qos, brk) ==
    ReachesSemantic(intent, rep, is_panic, pol, qos, brk)
        /\ ~IsBad(intent, "action")

\* Variant of Pipeline: the reputation gate comes before the signature gate.
Pipeline_ReputationFirst(intent, rep, is_panic, pol, qos, brk, ts) ==
    LET t0 == NewTrace(intent, rep, pol, qos, ts)
        t3 == IF ~is_healthy(brk)
              THEN [add_reason(t0, Reason("SSAI breaker OPEN", <<>>))
                        EXCEPT !.semantic_risk = 30]
              ELSE t0
        t7 == IF is_healthy(brk)
              THEN [t3 EXCEPT !.semantic_risk = assess_semantic_risk(intent)]
              ELSE t3
        t8 == [t7 EXCEPT !.behavioral_risk = assess_behavioral_risk(intent)]
    IN IF PanicGate(is_panic) THEN Reject(t0, Reason("PANIC", <<>>))
       ELSE IF ForensicGate(pol) THEN Reject(t0, Reason("FORENSIC", <<>>))
       ELSE IF ShedGate(qos, intent) THEN Reject(t3, Reason("Load shedding", <<>>))
       ELSE IF ReputationGate(pol, rep)
       THEN Reject([t3 EXCEPT !.risk_score = 9000],
                   Reason("Actor reputation", <<rep, MinRep(pol)>>))
       ELSE IF SignatureGate(pol, intent)
       THEN Reject([t3 EXCEPT !.risk_score = 10000], Reason("Missing signature", <<>>))
       ELSE IF FuelGate(pol, qos, intent)
       THEN Reject(t8, Reason("Fuel limit exceeded",
                              <<IntentGet(intent, "fuel_estimate", 0),
                                EffectiveFuel(pol, qos),
                                pol.max_fuel_per_intent, qos.fuel_multiplier>>))
       ELSE Decide(t8, pol)

\* Variant of Pipeline: an OPEN breaker counts as healthy again once the
\* recovery timeout has elapsed, as allow_request would answer.
Pipeline_ProbeAfterTimeout(intent, rep, is_panic, pol, qos, brk, ts) ==
    LET healthy == is_healthy(brk) \/ ts - brk.last_state_change >= recovery_timeout_s
        t0 == NewTrace(intent, rep, pol, qos, ts)
        t3 == IF ~healthy
              THEN [add_reason(t0, Reason("SSAI breaker OPEN", <<>>))
                        EXCEPT !.semantic_risk = 30]
              ELSE t0
        t7 == IF healthy
              THEN [t3 EXCEPT !.semantic_risk = assess_semantic_risk(intent)]
              ELSE t3
        t8 == [t7 EXCEPT !.behavioral_risk = assess_behavioral_risk(intent)]
    IN IF PanicGate(is_panic) THEN Reject(t0, Reason("PANIC", <<>>))
       ELSE IF ForensicGate(pol) THEN Reject(t0, Reason("FORENSIC", <<>>))
       ELSE IF ShedGate(qos, intent) THEN Reject(t3, Reason("Load shedding", <<>>))
       ELSE IF SignatureGate(pol, intent)
       THEN Reject([t3 EXCEPT !.risk_score = 10000], Reason("Missing signature", <<>>))
       ELSE IF ReputationGate(pol, rep)
       THEN Reject([t3 EXCEPT !.risk_score = 9000],
                   Reason("Actor reputation", <<rep, MinRep(pol)>>))
       ELSE IF FuelGate(pol, qos, intent)
       THEN Reject(t8, Reason("Fuel limit exceeded",
                              <<IntentGet(intent, "fuel_estimate", 0),
                                EffectiveFuel(pol, qos),
                                pol.max_fuel_per_intent, qos.fuel_multiplier>>))
       ELSE Decide(t8, pol)

\* The trace as it stands when evaluate_intent calls _finalize.
Pipeline(intent, rep, is_panic, pol, qos, brk, ts) ==
    LET t0 == NewTrace(intent, rep, pol, qos, ts)
        t3 == IF ~is_healthy(brk)
              THEN [add_reason(t0, Reason("SSAI breaker OPEN", <<>>))
                        EXCEPT !.semantic_risk = 30]
              ELSE t0
        t7 == IF is_healthy(brk)
              THEN [t3 EXCEPT !.semantic_risk = assess_semantic_risk(intent)]
              ELSE t3
        t8 == [t7 EXCEPT !.behavioral_risk = assess_behavioral_risk(intent)]
    IN IF PanicGate(is_panic) THEN Reject(t0, Reason("PANIC", <<>>))
       ELSE IF ForensicGate(pol) THEN Reject(t0, Reason("FORENSIC", <<>>))
       ELSE IF ShedGate(qos, intent) THEN Reject(t3, Reason("Load shedding", <<>>))
       ELSE IF SignatureGate(pol, intent)
       THEN Reject([t3 EXCEPT !.risk_score = 10000], Reason("Missing signature", <<>>))
       ELSE IF ReputationGate(pol, rep)
       THEN Reject([t3 EXCEPT !.risk_score = 9000],
                   Reason("Actor reputation", <<rep, MinRep(pol)>>))
       ELSE IF FuelGate(pol, qos, intent)
       THEN Reject(t8, Reason("Fuel limit exceeded",
                              <<IntentGet(intent, "fuel_estimate", 0),
                                EffectiveFuel(pol, qos),
                                pol.max_fuel_per_intent, qos.fuel_multiplier>>))
       ELSE Decide(t8, pol)

\* _finalize, first half: compute the confidence when it is still 0.0.
Finalize(t, pol) ==
    IF t.confidence_score = 0 /\ t.decision # "PENDING"
    THEN compute_confidence(t, pol.risk_weight_semantic,
                            pol.risk_weight_behavioral,
                            pol.risk_weight_reputation, 100)
    ELSE t

\* Variant of FinalizeAudit: the load-shedding path returns unaudited.
FinalizeAudit_SkipShed(seq, lh, ts, trs, k) ==
    IF \E j \in 1..Len(trs[k].reasons) : trs[k].reasons[j].kind = "Load shedding"
    THEN <<>>
    ELSE <<NewEntry(seq, ts, "decision", to_dict(trs[k]), k, lh, trs)>>

\* _finalize, second half: the entries log_decision appends for the trace
\* stored at index k of the trace heap trs.
FinalizeAudit(seq, lh, ts, trs, k) ==
    <<NewEntry(seq, ts, "decision", to_dict(trs[k]), k, lh, trs)>>

(***************************************************************************)
(* engine.py : reload_policy                                               *)
(***************************************************************************)
\* A policy file: kind "missing", "yaml_error", "not_mapping" or "mapping";
\* for a mapping, `has` is the set of keys present, `val` their values and
\* `bad` the keys whose value float()/int() cannot convert.
BaseVal ==
    [mode |-> "production", security_posture |-> "guarded",
     performance_profile |-> "balanced", max_fuel_per_intent |-> 500000,
     require_signed_intents |-> TRUE, min_reputation |-> 20,
     queue_backpressure_threshold |-> 100, adaptive_throttling |-> TRUE,
     allow_manual_override |-> TRUE, risk_weight_semantic |-> 50,
     risk_weight_behavioral |-> 30, risk_weight_reputation |-> 20]

Mapping(has, val) == [kind |-> "mapping", has |-> has, bad |-> {}, val |-> val]

NoFile == [kind |-> "missing", has |-> {}, bad |-> {}, val |-> BaseVal]

ConfigFiles ==
    { NoFile,
      Mapping({"mode"}, [BaseVal EXCEPT !.mode = "Forensic"]),
      Mapping({"mode", "security_posture"},
              [BaseVal EXCEPT !.mode = "paranoid", !.security_posture = "lockdown"]),
      Mapping({"security_posture", "max_fuel_per_intent"},
              [BaseVal EXCEPT !.security_posture = "open",
                              !.max_fuel_per_intent = 2000]) }

\* str(raw).upper() on the enum spellings the model draws.
Upper(s) ==
    CASE s \in {"development", "Development"} -> "DEVELOPMENT"
      [] s = "production" -> "PRODUCTION"
      [] s = "paranoid" -> "PARANOID"
      [] s \in {"forensic", "Forensic"} -> "FORENSIC"
      [] s = "open" -> "OPEN"
      [] s = "guarded" -> "GUARDED"
      [] s = "hardened" -> "HARDENED"
      [] s = "lockdown" -> "LOCKDOWN"
      [] s = "eco" -> "ECO"
      [] s = "balanced" -> "BALANCED"
      [] s = "turbo" -> "TURBO"
      [] OTHER -> "?"

\* Enum.value of a member: the lower-case spelling.
EnumValue(m) ==
    CASE m = "PRODUCTION" -> "production"
      [] m = "GUARDED" -> "guarded"
      [] OTHER -> "balanced"

Get(c, key, default) == IF key \in c.has THEN c.val[key] ELSE default

parse_enum(c, key, members, default) ==
    LET raw == Get(c, key, EnumValue(default))
    IN IF Upper(raw) \in members THEN Upper(raw) ELSE default

NumericKeys ==
    {"max_fuel_per_intent", "min_reputation", "queue_backpressure_threshold",
     "risk_weight_semantic", "risk_weight_behavioral", "risk_weight_reputation"}

\* float()/int() raises on some value of the file.
ConversionFails(c) == (c.has \cap c.bad \cap NumericKeys) # {}

\* The RuntimePolicy reload_policy constructs from a mapping.
BuildPolicy(c) ==
    LET mode == parse_enum(c, "mode", Modes, "PRODUCTION")
        d == DefaultPolicy(mode)
    IN [mode |-> mode,
        security_posture |-> parse_enum(c, "security_posture", Postures, "GUARDED"),
        performance_profile |-> parse_enum(c, "performance_profile", Profiles, "BALANCED"),
        max_fuel_per_intent |-> Get(c, "max_fuel_per_intent", d.max_fuel_per_intent),
        require_signed_intents |-> Get(c, "require_signed_intents", d.require_signed_intents),
        min_reputation |-> Get(c, "min_reputation", d.min_reputation),
        queue_backpressure_threshold |->
            Get(c, "queue_backpressure_threshold", d.queue_backpressure_threshold),
        adaptive_throttling |-> Get(c, "adaptive_throttling", d.adaptive_throttling),
        allow_manual_override |-> Get(c, "allow_manual_override", d.allow_manual_override),
        risk_weight_semantic |-> Get(c, "risk_weight_semantic", d.risk_weight_semantic),
        risk_weight_behavioral |-> Get(c, "risk_weight_behavioral", d.risk_weight_behavioral),
        risk_weight_reputation |-> Get(c, "risk_weight_reputation", d.risk_weight_reputation)]

\* TRUE when reload_policy gets as far as replacing self.policy.
Loadable(c) == c.kind = "mapping" /\ ~ConversionFails(c)

\* compute_file_hash: SHA-256 of the file's bytes, collision-free.
compute_file_hash(c) == <<c.has, c.bad, c.val>>

QosCfgOf(pol) ==
    [backpressure_threshold |-> pol.queue_backpressure_threshold,
     adaptive_throttling |-> pol.adaptive_throttling]

\* The entry log_policy_reload appends.
ReloadEntry(seq, lh, ts, c) ==
    NewEntry(seq, ts, "policy_reload",
             [policy_hash |-> compute_file_hash(c),
              mode |-> parse_enum(c, "mode", Modes, "PRODUCTION")],
             0, lh, <<>>)

(***************************************************************************)
(* Inputs                                                                  *)
(***************************************************************************)
BaseIntent ==
    [id |-> "i1", signature |-> TRUE, action |-> "read", requires_admin |-> FALSE,
     scope |-> TRUE, priority |-> "normal", fuel_estimate |-> 0,
     burst_count |-> 0, off_hours |-> FALSE, missing |-> {}, bad |-> {}]

Intents ==
    { BaseIntent,
      [BaseIntent EXCEPT !.id = "i2", !.signature = FALSE],
      [BaseIntent EXCEPT !.id = "i3", !.priority = "low"],
      [BaseIntent EXCEPT !.id = "i4", !.action = "DELETE", !.requires_admin = TRUE,
                         !.burst_count = 11],
      [BaseIntent EXCEPT !.id = "i5", !.fuel_estimate = 2000000] }

Reputations == {10, 90}

BaseMetrics ==
    [cpu_usage |-> 20, memory_usage |-> 20, queue_depth |-> 0,
     avg_latency_ms |-> 50, p2p_packet_loss |-> 0]

MetricsSet ==
    { BaseMetrics,
      [BaseMetrics EXCEPT !.cpu_usage = 90, !.queue_depth = 450] }

Operators == {"alice"}
OverrideDecisions == {"APPROVED", "REJECTED"}
Justifications == {"ticket-7"}

NoFault == [kind |-> "none", idx |-> -1, loaded |-> FALSE]

\* An I/O failure is the run's one fault.
IoAllowed(io) == io = "written" \/ fault.kind = "none"

FaultAfter(io, seq) ==
    IF io = "written" THEN fault
    ELSE [kind |-> "lost_write", idx |-> seq, loaded |-> FALSE]

(***************************************************************************)
(* State after construction                                                *)
(***************************************************************************)
\* GovernanceEngine.__init__ on a fresh log file: default policy, then
\* reload_policy() on whatever policy file is there.  The client's request
\* is drawn from intents x reps.
EngineInit(configs, intents, reps) ==
    \E c \in configs, io \in IoOutcomes, i \in intents, r \in reps :
        LET e == ReloadEntry(0, GENESIS_HASH, 0, c)
        IN /\ cfg = c
           /\ request = [intent |-> i, reputation |-> r]
           /\ admin = 0
           /\ now = 0
           /\ traces = <<>>
           /\ held = {}
           /\ last_qos = DefaultQoS
           /\ breaker = NewBreaker(0)
           /\ loadOK = TRUE
           /\ ret = [op |-> "init"]
           /\ IF Loadable(c)
              THEN /\ policy = BuildPolicy(c)
                   /\ policy_hash = compute_file_hash(c)
                   /\ chain = <<e>>
                   /\ last_hash = e.entry_hash
                   /\ sequence = 1
                   /\ disk = Persist(<<>>, e, <<>>, io)
                   /\ fault = IF io = "written" THEN NoFault
                              ELSE [kind |-> "lost_write", idx |-> 0, loaded |-> FALSE]
              ELSE /\ io = "written"
                   /\ policy = DefaultPolicy("PRODUCTION")
                   /\ policy_hash = <<>>
                   /\ chain = <<>>
                   /\ last_hash = GENESIS_HASH
                   /\ sequence = 0
                   /\ disk = <<>>
                   /\ fault = NoFault
           /\ qos_cfg = QosCfgOf(policy)

InitEngine == EngineInit(ConfigFiles, Intents, Reputations)

Init ==
    /\ InitEngine
    /\ workers = <<>>
    /\ streak = 0
    /\ SidecarsIdle

(***************************************************************************)
(* Operations of the engine                                                *)
(***************************************************************************)
\* AuditChain.append of the entries es (at most one), with _persist's outcome.
AuditAppend(es, trs, io) ==
    /\ chain' = chain \o es
    /\ last_hash' = IF es = <<>> THEN last_hash ELSE es[Len(es)].entry_hash
    /\ sequence' = sequence + Len(es)
    /\ disk' = IF es = <<>> THEN disk ELSE Persist(disk, es[1], trs, io)
    /\ fault' = IF es = <<>> THEN fault ELSE FaultAfter(io, sequence)
    /\ UNCHANGED loadOK

EvaluateIntent ==
    \E is_panic \in BOOLEAN, io \in IoOutcomes :
        LET intent == request.intent
            rep == request.reputation
            err == RaisedError(intent, rep, is_panic, policy, last_qos, breaker)
            t == Finalize(Pipeline(intent, rep, is_panic, policy, last_qos,
                                   breaker, now), policy)
            trs == Append(traces, t)
            k == Len(trs)
        IN /\ Len(chain) < MaxChain
           /\ breaker' = IF RecordsSuccess(intent, rep, is_panic, policy,
                                           last_qos, breaker)
                         THEN record_success(breaker, now) ELSE breaker
           /\ IF err # ""
              THEN /\ io = "written"
                   /\ ret' = [op |-> "evaluate_intent", is_panic |-> is_panic,
                              raised |-> TRUE, error |-> err, trace |-> 0,
                              result |-> NewTrace(intent, rep, policy, last_qos,
                                                  now)]
                   /\ UNCHANGED <<auditVars, traces, held>>
              ELSE /\ IoAllowed(io)
                   /\ traces' = trs
                   /\ AuditAppend(FinalizeAudit(sequence, last_hash, now, trs, k),
                                  trs, io)
                   /\ held' = IF PersistRaises(io) THEN held ELSE held \cup {k}
                   /\ ret' = [op |-> "evaluate_intent", is_panic |-> is_panic,
                              raised |-> PersistRaises(io),
                              error |-> IF PersistRaises(io) THEN "OSError" ELSE "",
                              trace |-> k, result |-> t]
           /\ UNCHANGED <<now, policy, policy_hash, last_qos, qos_cfg, cfg,
                          request, admin, auxVars>>

ManualOverride ==
    \E k \in held, operator \in Operators, new_decision \in OverrideDecisions,
       justification \in Justifications, io \in IoOutcomes :
        IF ~policy.allow_manual_override
        THEN /\ io = "written"
             /\ ret' = [op |-> "manual_override", trace |-> k, applied |-> FALSE,
                        raised |-> FALSE, result |-> traces[k]]
             /\ UNCHANGED <<auditVars, now, engineVars>>
        ELSE LET trs == [traces EXCEPT ![k] =
                            apply_override(@, operator, new_decision, justification)]
                 e == NewEntry(sequence, now, "override",
                               [operator |-> operator, action |-> new_decision,
                                justification |-> justification],
                               0, last_hash, trs)
             IN /\ Len(chain) < MaxChain
                /\ IoAllowed(io)
                /\ traces' = trs
                /\ AuditAppend(<<e>>, trs, io)
                /\ ret' = [op |-> "manual_override", trace |-> k, applied |-> TRUE,
                           raised |-> PersistRaises(io), result |-> trs[k]]
                /\ UNCHANGED <<now, policy, policy_hash, last_qos, qos_cfg,
                               breaker, cfg, held, request, admin, auxVars>>

ReloadPolicy ==
    \E io \in IoOutcomes :
        IF ~Loadable(cfg)
        THEN /\ io = "written"
             /\ ret' = [op |-> "reload_policy", result |-> FALSE]
             /\ UNCHANGED <<auditVars, now, engineVars>>
        ELSE /\ Len(chain) < MaxChain
             /\ IoAllowed(io)
             /\ policy' = BuildPolicy(cfg)
             /\ qos_cfg' = QosCfgOf(BuildPolicy(cfg))
             /\ policy_hash' = compute_file_hash(cfg)
             /\ AuditAppend(<<ReloadEntry(sequence, last_hash, now, cfg)>>, traces, io)
             /\ ret' = [op |-> "reload_policy", result |-> ~PersistRaises(io)]
             /\ UNCHANGED <<now, traces, last_qos, breaker, cfg, held, request,
                            admin, auxVars>>

\* update_qos(m): the adjustment is computed and cached.
UpdateQosCall(m) ==
    /\ last_qos' = qos_evaluate(m, qos_cfg)
    /\ ret' = [op |-> "update_qos", metrics |-> m]
    /\ UNCHANGED <<auditVars, now, traces, policy, policy_hash, qos_cfg,
                   breaker, cfg, held, request, auxVars>>

UpdateQos ==
    \E m \in MetricsSet :
        /\ admin < MaxAdmin
        /\ admin' = admin + 1
        /\ UpdateQosCall(m)

\* The operator edits the policy file.
EditConfig ==
    \E c \in ConfigFiles :
        /\ admin < MaxAdmin
        /\ admin' = admin + 1
        /\ c # cfg
        /\ cfg' = c
        /\ ret' = [op |-> "edit_config"]
        /\ UNCHANGED <<auditVars, now, traces, policy, policy_hash, last_qos,
                       qos_cfg, breaker, held, request, auxVars>>

ForceOpen ==
    /\ admin < MaxAdmin
    /\ admin' = admin + 1
    /\ breaker' = force_open(breaker, now)
    /\ ret' = [op |-> "force_open"]
    /\ UNCHANGED <<auditVars, now, traces, policy, policy_hash, last_qos,
                   qos_cfg, cfg, held, request, auxVars>>

ForceClose ==
    /\ admin < MaxAdmin
    /\ admin' = admin + 1
    /\ breaker' = force_close(breaker, now)
    /\ streak' = 0
    /\ ret' = [op |-> "force_close"]
    /\ UNCHANGED <<auditVars, now, traces, policy, policy_hash, last_qos,
                   qos_cfg, cfg, held, request, workers, sideVars>>

Next ==
    \/ EvaluateIntent
    \/ ManualOverride
    \/ ReloadPolicy
    \/ UpdateQos
    \/ EditConfig
    \/ ForceOpen
    \/ ForceClose

Spec == Init /\ [][Next]_vars

(***************************************************************************)
(* The audit chain taken alone: appends, faults of the log file, reopening *)
(***************************************************************************)
\* A default engine on a missing log file and no policy file, nothing called.
EngineBornAt(t) ==
    /\ chain = <<>>
    /\ last_hash = GENESIS_HASH
    /\ sequence = 0
    /\ disk = <<>>
    /\ loadOK = TRUE
    /\ fault = NoFault
    /\ now = t
    /\ traces = <<>>
    /\ held = {}
    /\ policy = DefaultPolicy("PRODUCTION")
    /\ policy_hash = <<>>
    /\ last_qos = DefaultQoS
    /\ qos_cfg = QosCfgOf(DefaultPolicy("PRODUCTION"))
    /\ breaker = NewBreaker(t)
    /\ cfg = NoFile
    /\ request = [intent |-> BaseIntent, reputation |-> 90]
    /\ admin = 0
    /\ ret = [op |-> "init"]

FreshEngine == EngineBornAt(0)

InitAudit ==
    /\ FreshEngine
    /\ workers = <<>>
    /\ streak = 0
    /\ SidecarsIdle

\* Trace dicts a caller hands to log_decision.
DecisionDicts ==
    { to_dict(Finalize(Pipeline(i, 90, FALSE, DefaultPolicy("PRODUCTION"),
                                DefaultQoS, NewBreaker(0), 0),
                       DefaultPolicy("PRODUCTION")))
      : i \in {BaseIntent, [BaseIntent EXCEPT !.id = "i2", !.signature = FALSE]} }

\* AuditChain.append(event_type, data) at the present time.
ChainAppend(type, data, io) ==
    /\ Len(chain) < MaxLog
    /\ Len(disk) < MaxLog
    /\ IoAllowed(io)
    /\ AuditAppend(<<NewEntry(sequence, now, type, data, 0, last_hash, traces)>>,
                   traces, io)
    /\ ret' = [op |-> "append", raised |-> PersistRaises(io)]
    /\ UNCHANGED <<now, engineVars>>

LogDecision ==
    \E d \in DecisionDicts, io \in IoOutcomes : ChainAppend("decision", d, io)

LogPolicyReload ==
    \E io \in IoOutcomes :
        ChainAppend("policy_reload",
                    [policy_hash |-> compute_file_hash(NoFile), mode |-> "PRODUCTION"],
                    io)

LogPanic ==
    \E io \in IoOutcomes : ChainAppend("panic", [reason |-> "manual"], io)

LogManualOverride ==
    \E io \in IoOutcomes :
        ChainAppend("override",
                    [operator |-> "alice", action |-> "APPROVED",
                     justification |-> "ticket-7"], io)

\* A new AuditChain is constructed on the same log file (_load_existing).
Reopen ==
    /\ chain' = LoadChain(disk)
    /\ last_hash' = LoadLastHash(disk)
    /\ sequence' = LoadSequence(disk)
    /\ loadOK' = LoadVerdict(disk)
    /\ fault' = [fault EXCEPT !.loaded = TRUE]
    /\ ret' = [op |-> "reopen"]
    /\ UNCHANGED <<disk, now, engineVars>>

HashChoices == {GENESIS_HASH, FORGED_HASH} \cup {disk[j].hash : j \in 1..Len(disk)}

\* Someone edits one field of line k of the log file (k counted from 0).
TamperData ==
    \E k \in 1..Len(disk) :
        /\ fault.kind = "none"
        /\ disk' = [disk EXCEPT ![k].data = [forged |-> @]]
        /\ fault' = [kind |-> "data", idx |-> k - 1, loaded |-> FALSE]
        /\ ret' = [op |-> "tamper"]
        /\ UNCHANGED <<chain, last_hash, sequence, loadOK, now, engineVars>>

TamperPrevHash ==
    \E k \in 1..Len(disk), h \in HashChoices :
        /\ fault.kind = "none"
        /\ h # disk[k].prev_hash
        /\ disk' = [disk EXCEPT ![k].prev_hash = h]
        /\ fault' = [kind |-> "prev_hash", idx |-> k - 1, loaded |-> FALSE]
        /\ ret' = [op |-> "tamper"]
        /\ UNCHANGED <<chain, last_hash, sequence, loadOK, now, engineVars>>

TamperEntryHash ==
    \E k \in 1..Len(disk), h \in HashChoices :
        /\ fault.kind = "none"
        /\ h # disk[k].hash
        /\ disk' = [disk EXCEPT ![k].hash = h]
        /\ fault' = [kind |-> "entry_hash", idx |-> k - 1, loaded |-> FALSE]
        /\ ret' = [op |-> "tamper"]
        /\ UNCHANGED <<chain, last_hash, sequence, loadOK, now, engineVars>>

\* Line k is removed from the file; idx is its position, `loaded` aside.
DeleteLine ==
    \E k \in 1..Len(disk) :
        /\ fault.kind = "none"
        /\ disk' = SubSeq(disk, 1, k - 1) \o SubSeq(disk, k + 1, Len(disk))
        /\ fault' = [kind |-> IF k = Len(disk) THEN "delete_tail" ELSE "delete",
                     idx |-> k - 1, loaded |-> FALSE]
        /\ ret' = [op |-> "tamper"]
        /\ UNCHANGED <<chain, last_hash, sequence, loadOK, now, engineVars>>

\* The last n >= 2 lines are removed from the file.
TruncateTail ==
    \E n \in 2..Len(disk) :
        /\ fault.kind = "none"
        /\ disk' = SubSeq(disk, 1, Len(disk) - n)
        /\ fault' = [kind |-> "delete_tail", idx |-> Len(disk) - n, loaded |-> FALSE]
        /\ ret' = [op |-> "tamper"]
        /\ UNCHANGED <<chain, last_hash, sequence, loadOK, now, engineVars>>

\* Line k becomes text json.loads rejects.
GarbleLine ==
    \E k \in 1..Len(disk) :
        /\ fault.kind = "none"
        /\ disk' = [disk EXCEPT ![k].ok = FALSE]
        /\ fault' = [kind |-> "garbled", idx |-> k - 1, loaded |-> FALSE]
        /\ ret' = [op |-> "tamper"]
        /\ UNCHANGED <<chain, last_hash, sequence, loadOK, now, engineVars>>

NextAudit ==
    \/ LogDecision
    \/ LogPolicyReload
    \/ LogPanic
    \/ LogManualOverride
    \/ Reopen
    \/ TamperData
    \/ TamperPrevHash
    \/ TamperEntryHash
    \/ DeleteLine
    \/ TruncateTail
    \/ GarbleLine

SpecAudit == InitAudit /\ [][NextAudit]_vars

(***************************************************************************)
(* AuditChain.append called from parallel workers.  The method takes no    *)
(* lock, so a worker can be preempted between any two of its statements:   *)
(* each read or write of a field of the chain is a step of its own.        *)
(***************************************************************************)
NumWorkers == 2   \* workers calling into the engine in parallel
MaxCalls == 1     \* calls each worker makes

Workers == 1..NumWorkers

\* A worker outside of any call.
IdleWorker ==
    [pc |-> "idle", calls |-> 0, data |-> <<>>, seq |-> 0,
     prev |-> GENESIS_HASH, entry |-> <<>>, tmp |-> 0]

InitAppend ==
    /\ FreshEngine
    /\ workers = [w \in Workers |-> IdleWorker]
    /\ streak = 0
    /\ SidecarsIdle

\* log_decision(d) is called on worker w.
AppendCall ==
    \E w \in Workers, d \in DecisionDicts :
        /\ workers[w].pc = "idle"
        /\ workers[w].calls < MaxCalls
        /\ workers' = [workers EXCEPT ![w].pc = "read_sequence", ![w].data = d,
                                       ![w].calls = @ + 1]
        /\ ret' = [op |-> "call", worker |-> w]
        /\ UNCHANGED <<auditVars, now, traces, policy, policy_hash, last_qos,
                       qos_cfg, breaker, cfg, held, request, admin, streak, sideVars>>

\* sequence=self._sequence
AppendReadSequence ==
    \E w \in Workers :
        /\ workers[w].pc = "read_sequence"
        /\ workers' = [workers EXCEPT ![w].pc = "read_last_hash",
                                       ![w].seq = sequence]
        /\ ret' = [op |-> "step", worker |-> w]
        /\ UNCHANGED <<auditVars, now, traces, policy, policy_hash, last_qos,
                       qos_cfg, breaker, cfg, held, request, admin, streak, sideVars>>

\* prev_hash=self._last_hash, then entry.entry_hash = entry.compute_hash()
AppendReadLastHash ==
    \E w \in Workers :
        /\ workers[w].pc = "read_last_hash"
        /\ workers' = [workers EXCEPT
                          ![w].pc = "chain_append",
                          ![w].prev = last_hash,
                          ![w].entry = NewEntry(workers[w].seq, now, "decision",
                                                workers[w].data, 0, last_hash,
                                                traces)]
        /\ ret' = [op |-> "step", worker |-> w]
        /\ UNCHANGED <<auditVars, now, traces, policy, policy_hash, last_qos,
                       qos_cfg, breaker, cfg, held, request, admin, streak, sideVars>>

\* self._chain.append(entry)
AppendChainAppend ==
    \E w \in Workers :
        /\ workers[w].pc = "chain_append"
        /\ chain' = Append(chain, workers[w].entry)
        /\ workers' = [workers EXCEPT ![w].pc = "set_last_hash"]
        /\ ret' = [op |-> "step", worker |-> w]
        /\ UNCHANGED <<last_hash, sequence, disk, loadOK, fault, now, traces,
                       policy, policy_hash, last_qos, qos_cfg, breaker, cfg,
                       held, request, admin, streak, sideVars>>

\* self._last_hash = entry.entry_hash
AppendSetLastHash ==
    \E w \in Workers :
        /\ workers[w].pc = "set_last_hash"
        /\ last_hash' = workers[w].entry.entry_hash
        /\ workers' = [workers EXCEPT ![w].pc = "load_sequence"]
        /\ ret' = [op |-> "step", worker |-> w]
        /\ UNCHANGED <<chain, sequence, disk, loadOK, fault, now, traces,
                       policy, policy_hash, last_qos, qos_cfg, breaker, cfg,
                       held, request, admin, streak, sideVars>>

\* self._sequence += 1, the read of the field
AppendLoadSequence ==
    \E w \in Workers :
        /\ workers[w].pc = "load_sequence"
        /\ workers' = [workers EXCEPT ![w].pc = "store_sequence",
                                       ![w].tmp = sequence]
        /\ ret' = [op |-> "step", worker |-> w]
        /\ UNCHANGED <<auditVars, now, traces, policy, policy_hash, last_qos,
                       qos_cfg, breaker, cfg, held, request, admin, streak, sideVars>>

\* self._sequence += 1, the write of the field
AppendStoreSequence ==
    \E w \in Workers :
        /\ workers[w].pc = "store_sequence"
        /\ sequence' = workers[w].tmp + 1
        /\ workers' = [workers EXCEPT ![w].pc = "persist"]
        /\ ret' = [op |-> "step", worker |-> w]
        /\ UNCHANGED <<chain, last_hash, disk, loadOK, fault, now, traces,
                       policy, policy_hash, last_qos, qos_cfg, breaker, cfg,
                       held, request, admin, streak, sideVars>>

\* self._persist(entry); return entry
AppendPersist ==
    \E w \in Workers :
        /\ workers[w].pc = "persist"
        /\ disk' = Persist(disk, workers[w].entry, traces, "written")
        /\ workers' = [workers EXCEPT ![w].pc = "idle"]
        /\ ret' = [op |-> "append", worker |-> w]
        /\ UNCHANGED <<chain, last_hash, sequence, loadOK, fault, now, traces,
                       policy, policy_hash, last_qos, qos_cfg, breaker, cfg,
                       held, request, admin, streak, sideVars>>

NextAppend ==
    \/ AppendCall
    \/ AppendReadSequence
    \/ AppendReadLastHash
    \/ AppendChainAppend
    \/ AppendSetLastHash
    \/ AppendLoadSequence
    \/ AppendStoreSequence
    \/ AppendPersist

SpecAppend == InitAppend /\ [][NextAppend]_vars

(***************************************************************************)
(* evaluate_intent in flight while reload_policy runs.  The method reads   *)
(* self.policy afresh at every use and takes no lock, so each read of the  *)
(* field is a step of its own and a reload can land between any two.       *)
(***************************************************************************)
Evaluators == {1}

\* A worker outside of any call, and the locals of evaluate_intent.
IdleEval ==
    [pc |-> "idle", calls |-> 0, mode |-> "", posture |-> "", t |-> <<>>,
     ws |-> 0, wb |-> 0]

InitSnapshot ==
    /\ InitEngine
    /\ workers = [w \in Evaluators |-> IdleEval]
    /\ streak = 0
    /\ SidecarsIdle

\* The weights as compute_confidence receives them.
Weights(ws, wb, wr) ==
    [risk_weight_semantic |-> ws, risk_weight_behavioral |-> wb,
     risk_weight_reputation |-> wr]

\* evaluate_intent(request.intent, request.reputation) is called on worker w.
EvalCall ==
    \E w \in Evaluators :
        /\ workers[w].pc = "idle"
        /\ workers[w].calls < MaxCalls
        /\ workers' = [workers EXCEPT ![w] = [IdleEval EXCEPT
                                                !.pc = "read_mode",
                                                !.calls = workers[w].calls + 1]]
        /\ ret' = [op |-> "call", worker |-> w]
        /\ UNCHANGED <<auditVars, now, traces, policy, policy_hash, last_qos,
                       qos_cfg, breaker, cfg, held, request, admin, streak, sideVars>>

\* mode_snapshot=self.policy.mode.name
EvalReadMode ==
    \E w \in Evaluators :
        /\ workers[w].pc = "read_mode"
        /\ workers' = [workers EXCEPT ![w].pc = "read_posture", ![w].mode = policy.mode]
        /\ ret' = [op |-> "step", worker |-> w]
        /\ UNCHANGED <<auditVars, now, traces, policy, policy_hash, last_qos,
                       qos_cfg, breaker, cfg, held, request, admin, streak, sideVars>>

\* security_posture=self.policy.security_posture.name
EvalReadPosture ==
    \E w \in Evaluators :
        /\ workers[w].pc = "read_posture"
        /\ workers' = [workers EXCEPT ![w].pc = "read_profile", ![w].posture = policy.security_posture]
        /\ ret' = [op |-> "step", worker |-> w]
        /\ UNCHANGED <<auditVars, now, traces, policy, policy_hash, last_qos,
                       qos_cfg, breaker, cfg, held, request, admin, streak, sideVars>>

\* performance_profile=self.policy.performance_profile.name; the trace is built
EvalReadProfile ==
    \E w \in Evaluators :
        /\ workers[w].pc = "read_profile"
        /\ workers' = [workers EXCEPT ![w].pc = "forensic", ![w].t = NewTrace(request.intent, request.reputation,
                                [mode |-> workers[w].mode,
                                 security_posture |-> workers[w].posture,
                                 performance_profile |-> policy.performance_profile],
                                last_qos, now)]
        /\ ret' = [op |-> "step", worker |-> w]
        /\ UNCHANGED <<auditVars, now, traces, policy, policy_hash, last_qos,
                       qos_cfg, breaker, cfg, held, request, admin, streak, sideVars>>

\* Steps 2-4: the FORENSIC gate (one read of self.policy), the breaker
\* check and load shedding.
EvalForensic ==
    \E w \in Evaluators :
        LET t0 == workers[w].t
            t3 == IF ~is_healthy(breaker)
                  THEN [add_reason(t0, Reason("SSAI breaker OPEN", <<>>))
                            EXCEPT !.semantic_risk = 30]
                  ELSE t0
        IN /\ workers[w].pc = "forensic"
           /\ workers' =
                IF ForensicGate(policy)
                THEN [workers EXCEPT ![w].pc = "finalize",
                                     ![w].t = Reject(t0, Reason("FORENSIC", <<>>))]
                ELSE IF ShedGate(last_qos, request.intent)
                THEN [workers EXCEPT ![w].pc = "finalize",
                                     ![w].t = Reject(t3, Reason("Load shedding", <<>>))]
                ELSE [workers EXCEPT ![w].pc = "preset", ![w].t = t3]
           /\ ret' = [op |-> "step", worker |-> w]
           /\ UNCHANGED <<auditVars, now, traces, policy, policy_hash, last_qos,
                          qos_cfg, breaker, cfg, held, request, admin, streak, sideVars>>

\* Steps 5-8: sec_preset is looked up once (one read of self.policy) and
\* serves the signature and the reputation gate; then the two risks.
EvalPreset ==
    \E w \in Evaluators :
        LET t3 == workers[w].t
            intent == request.intent
            rep == request.reputation
            t7 == IF is_healthy(breaker)
                  THEN [t3 EXCEPT !.semantic_risk = assess_semantic_risk(intent)]
                  ELSE t3
            t8 == [t7 EXCEPT !.behavioral_risk = assess_behavioral_risk(intent)]
            passes == ~SignatureGate(policy, intent) /\ ~ReputationGate(policy, rep)
        IN /\ workers[w].pc = "preset"
           /\ workers' =
                IF SignatureGate(policy, intent)
                THEN [workers EXCEPT
                        ![w].pc = "finalize",
                        ![w].t = Reject([t3 EXCEPT !.risk_score = 10000],
                                        Reason("Missing signature", <<>>))]
                ELSE IF ReputationGate(policy, rep)
                THEN [workers EXCEPT
                        ![w].pc = "finalize",
                        ![w].t = Reject([t3 EXCEPT !.risk_score = 9000],
                                        Reason("Actor reputation",
                                               <<rep, MinRep(policy)>>))]
                ELSE [workers EXCEPT ![w].pc = "fuel", ![w].t = t8]
           /\ breaker' = IF passes /\ is_healthy(breaker)
                         THEN record_success(breaker, now) ELSE breaker
           /\ ret' = [op |-> "step", worker |-> w]
           /\ UNCHANGED <<auditVars, now, traces, policy, policy_hash, last_qos,
                          qos_cfg, cfg, held, request, admin, streak, sideVars>>

\* Step 9: the fuel budget (one read of self.policy).
EvalFuel ==
    \E w \in Evaluators :
        LET t8 == workers[w].t
            intent == request.intent
        IN /\ workers[w].pc = "fuel"
           /\ workers' =
                IF FuelGate(policy, last_qos, intent)
                THEN [workers EXCEPT
                        ![w].pc = "finalize",
                        ![w].t = Reject(t8, Reason("Fuel limit exceeded",
                                   <<IntentGet(intent, "fuel_estimate", 0),
                                     EffectiveFuel(policy, last_qos),
                                     policy.max_fuel_per_intent,
                                     last_qos.fuel_multiplier>>))]
                ELSE [workers EXCEPT ![w].pc = "w_semantic"]
           /\ ret' = [op |-> "step", worker |-> w]
           /\ UNCHANGED <<auditVars, now, traces, policy, policy_hash, last_qos,
                          qos_cfg, breaker, cfg, held, request, admin, streak, sideVars>>

\* Step 10: w_semantic=self.policy.risk_weight_semantic
EvalWeightSemantic ==
    \E w \in Evaluators :
        /\ workers[w].pc = "w_semantic"
        /\ workers' = [workers EXCEPT ![w].pc = "w_behavioral", ![w].ws = policy.risk_weight_semantic]
        /\ ret' = [op |-> "step", worker |-> w]
        /\ UNCHANGED <<auditVars, now, traces, policy, policy_hash, last_qos,
                       qos_cfg, breaker, cfg, held, request, admin, streak, sideVars>>

\* w_behavioral=self.policy.risk_weight_behavioral
EvalWeightBehavioral ==
    \E w \in Evaluators :
        /\ workers[w].pc = "w_behavioral"
        /\ workers' = [workers EXCEPT ![w].pc = "w_reputation", ![w].wb = policy.risk_weight_behavioral]
        /\ ret' = [op |-> "step", worker |-> w]
        /\ UNCHANGED <<auditVars, now, traces, policy, policy_hash, last_qos,
                       qos_cfg, breaker, cfg, held, request, admin, streak, sideVars>>

\* w_reputation=self.policy.risk_weight_reputation, then compute_confidence and
\* the thresholds
EvalWeightReputation ==
    \E w \in Evaluators :
        /\ workers[w].pc = "w_reputation"
        /\ workers' = [workers EXCEPT ![w].pc = "finalize", ![w].t = Decide(workers[w].t,
                               Weights(workers[w].ws, workers[w].wb,
                                       policy.risk_weight_reputation))]
        /\ ret' = [op |-> "step", worker |-> w]
        /\ UNCHANGED <<auditVars, now, traces, policy, policy_hash, last_qos,
                       qos_cfg, breaker, cfg, held, request, admin, streak, sideVars>>

\* _finalize: the test on confidence_score.
EvalFinalize ==
    \E w \in Evaluators :
        /\ workers[w].pc = "finalize"
        /\ workers' = [workers EXCEPT ![w].pc =
                          IF workers[w].t.confidence_score = 0
                             /\ workers[w].t.decision # "PENDING"
                          THEN "fin_semantic" ELSE "log"]
        /\ ret' = [op |-> "step", worker |-> w]
        /\ UNCHANGED <<auditVars, now, traces, policy, policy_hash, last_qos,
                       qos_cfg, breaker, cfg, held, request, admin, streak, sideVars>>

\* _finalize: w_semantic=self.policy.risk_weight_semantic
EvalFinSemantic ==
    \E w \in Evaluators :
        /\ workers[w].pc = "fin_semantic"
        /\ workers' = [workers EXCEPT ![w].pc = "fin_behavioral", ![w].ws = policy.risk_weight_semantic]
        /\ ret' = [op |-> "step", worker |-> w]
        /\ UNCHANGED <<auditVars, now, traces, policy, policy_hash, last_qos,
                       qos_cfg, breaker, cfg, held, request, admin, streak, sideVars>>

\* _finalize: w_behavioral=self.policy.risk_weight_behavioral
EvalFinBehavioral ==
    \E w \in Evaluators :
        /\ workers[w].pc = "fin_behavioral"
        /\ workers' = [workers EXCEPT ![w].pc = "fin_reputation", ![w].wb = policy.risk_weight_behavioral]
        /\ ret' = [op |-> "step", worker |-> w]
        /\ UNCHANGED <<auditVars, now, traces, policy, policy_hash, last_qos,
                       qos_cfg, breaker, cfg, held, request, admin, streak, sideVars>>

\* _finalize: w_reputation=self.policy.risk_weight_reputation, then
\* compute_confidence
EvalFinReputation ==
    \E w \in Evaluators :
        /\ workers[w].pc = "fin_reputation"
        /\ workers' = [workers EXCEPT ![w].pc = "log", ![w].t = compute_confidence(workers[w].t, workers[w].ws, workers[w].wb,
                                           policy.risk_weight_reputation, 100)]
        /\ ret' = [op |-> "step", worker |-> w]
        /\ UNCHANGED <<auditVars, now, traces, policy, policy_hash, last_qos,
                       qos_cfg, breaker, cfg, held, request, admin, streak, sideVars>>

\* _finalize: log_decision(trace.to_dict()), and the call returns.
EvalLog ==
    \E w \in Evaluators :
        LET trs == Append(traces, workers[w].t)
            k == Len(trs)
        IN /\ workers[w].pc = "log"
           /\ traces' = trs
           /\ AuditAppend(FinalizeAudit(sequence, last_hash, now, trs, k), trs,
                          "written")
           /\ held' = held \cup {k}
           /\ workers' = [workers EXCEPT ![w].pc = "idle"]
           /\ ret' = [op |-> "evaluate_intent", is_panic |-> FALSE,
                      raised |-> FALSE, trace |-> k, result |-> workers[w].t]
           /\ UNCHANGED <<now, policy, policy_hash, last_qos, qos_cfg, breaker,
                          cfg, request, admin, streak, sideVars>>

NextSnapshot ==
    \/ EvalCall
    \/ EvalReadMode
    \/ EvalReadPosture
    \/ EvalReadProfile
    \/ EvalForensic
    \/ EvalPreset
    \/ EvalFuel
    \/ EvalWeightSemantic
    \/ EvalWeightBehavioral
    \/ EvalWeightReputation
    \/ EvalFinalize
    \/ EvalFinSemantic
    \/ EvalFinBehavioral
    \/ EvalFinReputation
    \/ EvalLog
    \/ EditConfig
    \/ ReloadPolicy

SpecSnapshot == InitSnapshot /\ [][NextSnapshot]_vars

(***************************************************************************)
(* The decision pipeline over a wider range of requests: intents that fail *)
(* several gates at once, that sit on the confidence thresholds, that lack *)
(* fields or carry fields of the wrong type.                               *)
(***************************************************************************)
AllKeys ==
    {"id", "signature", "action", "requires_admin", "scope", "priority",
     "fuel_estimate", "burst_count", "off_hours"}

PipelineIntents ==
    { [BaseIntent EXCEPT !.id = "p1"],
      [BaseIntent EXCEPT !.id = "p2", !.signature = FALSE, !.priority = "low",
                         !.fuel_estimate = 2000000],
      [BaseIntent EXCEPT !.id = "p3", !.priority = "low", !.fuel_estimate = 2000000],
      [BaseIntent EXCEPT !.id = "p4", !.action = "DELETE", !.requires_admin = TRUE,
                         !.burst_count = 11],
      [BaseIntent EXCEPT !.id = "p5", !.fuel_estimate = 2000000],
      [BaseIntent EXCEPT !.id = "p6", !.action = "DELETE", !.missing = {"scope"}],
      [BaseIntent EXCEPT !.id = "p7", !.action = "Kill", !.requires_admin = TRUE,
                         !.missing = {"scope"}, !.burst_count = 11,
                         !.off_hours = TRUE],
      [BaseIntent EXCEPT !.id = "p8", !.missing = AllKeys],
      [BaseIntent EXCEPT !.id = "p9", !.bad = {"action"}],
      [BaseIntent EXCEPT !.id = "p10", !.bad = {"fuel_estimate"}],
      [BaseIntent EXCEPT !.id = "p11", !.bad = {"burst_count"}],
      [BaseIntent EXCEPT !.id = "p12", !.priority = "high",
                         !.missing = {"fuel_estimate", "action"}] }

PipelineReputations == {10, 50, 90, 100}

InitPipeline ==
    /\ EngineInit(ConfigFiles, PipelineIntents, PipelineReputations)
    /\ workers = <<>>
    /\ streak = 0
    /\ SidecarsIdle

NextPipeline ==
    \/ EvaluateIntent
    \/ UpdateQos
    \/ ForceOpen

SpecPipeline == InitPipeline /\ [][NextPipeline]_vars

(***************************************************************************)
(* Load shedding: metrics are fed to update_qos more than once while a     *)
(* client submits an intent of some priority, or of none.                  *)
(***************************************************************************)
MaxUpdates == 2   \* update_qos calls

ShedIntents ==
    { [BaseIntent EXCEPT !.id = "s1", !.priority = "low"],
      [BaseIntent EXCEPT !.id = "s2", !.priority = "normal"],
      [BaseIntent EXCEPT !.id = "s3", !.priority = "high"],
      [BaseIntent EXCEPT !.id = "s4", !.missing = {"priority"}] }

\* Queue depths: none, exactly twice the default threshold (100), and one
\* more than that.
ShedMetrics ==
    { [BaseMetrics EXCEPT !.queue_depth = q] : q \in {0, 200, 201} }

InitShed ==
    /\ EngineInit(ConfigFiles, ShedIntents, {90})
    /\ workers = <<>>
    /\ streak = 0
    /\ SidecarsIdle

\* update_qos with the metrics of the moment.
MeasureLoad ==
    \E m \in ShedMetrics :
        /\ admin < MaxUpdates
        /\ admin' = admin + 1
        /\ UpdateQosCall(m)

NextShed ==
    \/ EvaluateIntent
    \/ MeasureLoad
    \/ EditConfig
    \/ ReloadPolicy
    \/ ForceOpen

SpecShed == InitShed /\ [][NextShed]_vars

(***************************************************************************)
(* The circuit breaker of one subsystem over time: requests, recorded      *)
(* outcomes and manual trips while the clock advances.                     *)
(***************************************************************************)
MaxTime == 60       \* the clock stops advancing there (seconds)
MaxFailures == 6    \* failures counted on the breaker

\* Steps of the wall clock between two calls.
TickSteps == {10, 30}

InitBreaker ==
    /\ FreshEngine
    /\ workers = <<>>
    /\ streak = 0
    /\ SidecarsIdle

Tick ==
    \E d \in TickSteps :
        /\ now + d <= MaxTime
        /\ now' = now + d
        /\ ret' = [op |-> "tick"]
        /\ UNCHANGED <<auditVars, engineVars>>

\* circuit_breaker.allow_request("ssai")
AllowRequest ==
    /\ breaker' = allow_request(breaker, now)[2]
    /\ ret' = [op |-> "allow_request", result |-> allow_request(breaker, now)[1],
               before |-> breaker]
    /\ UNCHANGED <<auditVars, traces, policy, policy_hash, last_qos, qos_cfg,
                   cfg, held, request, admin, workers, streak, sideVars, now>>

\* circuit_breaker.record_success("ssai")
RecordSuccess ==
    /\ breaker' = record_success(breaker, now)
    /\ streak' = 0
    /\ ret' = [op |-> "record_success", before |-> breaker]
    /\ UNCHANGED <<auditVars, traces, policy, policy_hash, last_qos, qos_cfg,
                   cfg, held, request, admin, workers, sideVars, now>>

\* circuit_breaker.record_failure("ssai")
RecordFailure ==
    /\ breaker.failure_count < MaxFailures
    /\ breaker' = record_failure(breaker, now)
    /\ streak' = streak + 1
    /\ ret' = [op |-> "record_failure", before |-> breaker]
    /\ UNCHANGED <<auditVars, traces, policy, policy_hash, last_qos, qos_cfg,
                   cfg, held, request, admin, workers, sideVars, now>>

NextBreaker ==
    \/ Tick
    \/ AllowRequest
    \/ RecordSuccess
    \/ RecordFailure
    \/ ForceOpen
    \/ ForceClose

SpecBreaker == InitBreaker /\ [][NextBreaker]_vars

(***************************************************************************)
(* The QoS controller under the metrics a monitor can report.              *)
(***************************************************************************)
\* SystemMetrics snapshots: every rule on and off, the queue and the latency
\* in several ratios to their thresholds, a latency average that is inf.
QosMetrics ==
    { [cpu_usage |-> c, memory_usage |-> mu, queue_depth |-> qd,
       avg_latency_ms |-> l, p2p_packet_loss |-> pl]
      : c \in {50, 90}, mu \in {50, 95}, qd \in {0, 150, 450},
        l \in {100, 400, INF}, pl \in {5, 20} }

\* The engine as constructed on any of the policy files, which sets the
\* controller's backpressure threshold.
InitQos ==
    /\ EngineInit(ConfigFiles, {BaseIntent}, {90})
    /\ workers = <<>>
    /\ streak = 0
    /\ SidecarsIdle

\* update_qos with any snapshot.
Measure ==
    \E m \in QosMetrics :
        /\ UpdateQosCall(m)
        /\ UNCHANGED admin

NextQos == Measure

SpecQos == InitQos /\ [][NextQos]_vars

(***************************************************************************)
(* The feedback loop over time: bursts of observations, evaluations with   *)
(* whatever profile, posture and CPU usage the daemon passes, and waits.   *)
(***************************************************************************)
MaxElapsed == 90     \* seconds of short waits explored after the start
MaxObserved == 20    \* observations fed into the loop

\* time.time() when the loop is constructed.
BootTime == 1000

WaitSteps == {30}

BurstSize == min_observations

\* Per burst: how many of its observations were rejections, and its latency.
BurstRejections == {0, 1, 8, 9}
BurstLatencies == {100, 3000}

CpuReadings == {10, 90}
CurrentPostures == {"GUARDED", "LOCKDOWN"}

InitFeedback ==
    /\ EngineBornAt(BootTime)
    /\ workers = <<>>
    /\ streak = 0
    /\ SidecarsIdle

Wait ==
    \E d \in WaitSteps :
        /\ now + d - BootTime <= MaxElapsed
        /\ now' = now + d
        /\ ret' = [op |-> "wait"]
        /\ UNCHANGED <<auditVars, engineVars>>

\* observe(latency, rejected), BurstSize times in a row.
ObserveBurst ==
    \E k \in BurstRejections, l \in BurstLatencies :
        /\ SumOver(loop.buffer, "n") + BurstSize <= MaxObserved
        /\ loop' = observe_loop(loop, now, BurstSize, k, l)
        /\ collector' = observe_collector(collector, now, BurstSize, k, l)
        /\ ret' = [op |-> "observe"]
        /\ UNCHANGED <<auditVars, now, traces, policy, policy_hash, last_qos,
                       qos_cfg, breaker, cfg, held, request, admin, workers,
                       streak, acted, panicVars>>

\* evaluate(current_performance, current_security, cpu_usage); the call
\* record keeps the windowed sums the decision was taken on.
FeedbackEvaluate ==
    \E perf \in Profiles, sec \in CurrentPostures, cpu \in CpuReadings :
        LET r == feedback_evaluate(loop, perf, sec, cpu, now)
            recent == Recent(loop.buffer, now - observation_window_s)
        IN /\ loop' = r[2]
           /\ acted' = IF r[1] # NoAction THEN now ELSE acted
           /\ ret' = [op |-> "feedback_evaluate", performance |-> perf,
                      security |-> sec, cpu_usage |-> cpu, result |-> r[1],
                      observed |-> SumOver(recent, "n"),
                      rejected |-> SumOver(recent, "rejected"),
                      latency_sum |-> SumOver(recent, "latency"),
                      acted_before |-> acted,
                      adaptations_before |-> loop.total_adaptations]
           /\ UNCHANGED <<auditVars, now, traces, policy, policy_hash,
                          last_qos, qos_cfg, breaker, cfg, held, request,
                          admin, workers, streak, collector,
                          panicVars>>

\* The daemon stays idle for a whole observation window.
LongPause ==
    /\ now - BootTime <= MaxElapsed
    /\ now' = now + observation_window_s
    /\ ret' = [op |-> "pause"]
    /\ UNCHANGED <<auditVars, engineVars>>

NextFeedback ==
    \/ Wait
    \/ LongPause
    \/ ObserveBurst
    \/ FeedbackEvaluate

SpecFeedback == InitFeedback /\ [][NextFeedback]_vars

(***************************************************************************)
(* Reloading the policy while the operator rewrites the policy file: files *)
(* that are missing, unparsable, not a mapping, well-formed, with unknown  *)
(* enum spellings, with an unconvertible number, with some of the risk     *)
(* weights.                                                                *)
(***************************************************************************)
MaxRewrites == 2    \* times the operator rewrites the policy file

ReloadConfigs ==
    { NoFile,
      [NoFile EXCEPT !.kind = "yaml_error"],
      [NoFile EXCEPT !.kind = "not_mapping"],
      Mapping({"mode", "security_posture"},
              [BaseVal EXCEPT !.mode = "paranoid", !.security_posture = "lockdown"]),
      Mapping({"security_posture", "max_fuel_per_intent"},
              [BaseVal EXCEPT !.security_posture = "open",
                              !.max_fuel_per_intent = 2000]),
      Mapping({"mode"}, [BaseVal EXCEPT !.mode = "staging"]),
      Mapping({"performance_profile", "max_fuel_per_intent"},
              [BaseVal EXCEPT !.performance_profile = "ludicrous",
                              !.max_fuel_per_intent = 7]),
      [Mapping({"max_fuel_per_intent"}, BaseVal)
           EXCEPT !.bad = {"max_fuel_per_intent"}],
      Mapping({"risk_weight_semantic"}, [BaseVal EXCEPT !.risk_weight_semantic = 90]),
      Mapping({"risk_weight_semantic", "risk_weight_behavioral",
               "risk_weight_reputation"},
              [BaseVal EXCEPT !.risk_weight_semantic = 20,
                              !.risk_weight_behavioral = 30,
                              !.risk_weight_reputation = 50]) }

InitReload ==
    /\ EngineInit(ReloadConfigs, {BaseIntent}, {90})
    /\ workers = <<>>
    /\ streak = 0
    /\ SidecarsIdle

\* The operator rewrites the policy file.
Rewrite ==
    \E c \in ReloadConfigs :
        /\ admin < MaxRewrites
        /\ admin' = admin + 1
        /\ c # cfg
        /\ cfg' = c
        /\ ret' = [op |-> "edit_config"]
        /\ UNCHANGED <<auditVars, now, traces, policy, policy_hash, last_qos,
                       qos_cfg, breaker, held, request, auxVars>>

NextReload ==
    \/ Rewrite
    \/ ReloadPolicy

SpecReload == InitReload /\ [][NextReload]_vars

(***************************************************************************)
(* The panic switch beside the engine: operators activate and deactivate   *)
(* it, anybody may create the lock file, the daemon polls is_active, the   *)
(* clock advances, and the engine keeps evaluating intents.                *)
(***************************************************************************)
AutoClearOptions == {0, 30}
PanicReasons == {"breach", "drill"}
LockBodies == {"", "ops says stop"}
FileOutcomes == {"ok", "oserror"}

\* PanicSwitch(lock_path, auto_clear_s): the constructor polls the lock file.
InitPanic ==
    /\ FreshEngine
    /\ workers = <<>>
    /\ streak = 0
    /\ FeedbackIdle
    /\ \E a \in AutoClearOptions,
          l \in {NoLock} \cup {[exists |-> TRUE, content |-> b] : b \in LockBodies} :
          /\ lock = l
          /\ panic = check_file_trigger(NewPanic(a), l, 0, "ok")

\* activate(reason, source = "api")
PanicActivate ==
    \E reason \in PanicReasons, outcome \in FileOutcomes \cup {"raises"} :
        LET r == activate(panic, lock, reason, "api", now, outcome)
        IN /\ panic' = r[1]
           /\ lock' = r[2]
           /\ ret' = [op |-> "activate", raised |-> outcome = "raises",
                      before |-> panic, lock_before |-> lock]
           /\ UNCHANGED <<auditVars, now, traces, policy, policy_hash,
                          last_qos, qos_cfg, breaker, cfg, held, request,
                          admin, workers, streak, loop, collector, acted>>

\* deactivate(operator)
PanicDeactivate ==
    \E outcome \in FileOutcomes :
        LET r == deactivate(panic, lock, outcome)
        IN /\ panic' = r[1]
           /\ lock' = r[2]
           /\ ret' = [op |-> "deactivate", before |-> panic,
                      lock_before |-> lock]
           /\ UNCHANGED <<auditVars, now, traces, policy, policy_hash,
                          last_qos, qos_cfg, breaker, cfg, held, request,
                          admin, workers, streak, loop, collector, acted>>

\* is_active, state, check()
PanicCheck ==
    \E read \in FileOutcomes, outcome \in FileOutcomes :
        LET r == panic_check(panic, lock, now, read, outcome)
        IN /\ panic' = r[2]
           /\ lock' = r[3]
           /\ ret' = [op |-> "panic_check", result |-> r[1],
                      cleared |-> AutoClearDue(check_file_trigger(panic, lock,
                                                                  now, read), now),
                      before |-> panic, lock_before |-> lock]
           /\ UNCHANGED <<auditVars, now, traces, policy, policy_hash,
                          last_qos, qos_cfg, breaker, cfg, held, request,
                          admin, workers, streak, loop, collector, acted>>

\* Somebody outside the process creates or rewrites the lock file.
TouchLock ==
    \E b \in LockBodies :
        /\ lock' = [exists |-> TRUE, content |-> b]
        /\ ret' = [op |-> "touch", before |-> panic, lock_before |-> lock]
        /\ UNCHANGED <<auditVars, now, traces, policy, policy_hash,
                       last_qos, qos_cfg, breaker, cfg, held, request,
                       admin, workers, streak, loop, collector, acted, panic>>

NextPanic ==
    \/ PanicActivate
    \/ PanicDeactivate
    \/ PanicCheck
    \/ TouchLock
    \/ Tick

SpecPanic == InitPanic /\ [][NextPanic]_vars

\* The switch beside an engine that evaluates intents and writes its audit
\* chain, within one reading of the clock; the daemon keeps running: some
\* step is taken whenever one is possible.
NextPanicAudit ==
    \/ PanicActivate
    \/ PanicDeactivate
    \/ PanicCheck
    \/ TouchLock
    \/ EvaluateIntent

SpecPanicAudit == InitPanic /\ [][NextPanicAudit]_vars /\ WF_vars(NextPanicAudit)

(***************************************************************************)
(* An outage of the semantic assessor: the breaker is forced open, time    *)
(* passes, the engine keeps evaluating intents, and the breaker is probed  *)
(* with allow_request from outside the engine.                             *)
(***************************************************************************)
OutageIntents ==
    { [BaseIntent EXCEPT !.id = "o1"],
      [BaseIntent EXCEPT !.id = "o2", !.action = "DELETE", !.requires_admin = TRUE,
                         !.missing = {"scope"}],
      [BaseIntent EXCEPT !.id = "o3", !.action = "bypass", !.fuel_estimate = 2000000],
      [BaseIntent EXCEPT !.id = "o4", !.requires_admin = TRUE, !.signature = FALSE] }

InitOutage ==
    /\ EngineInit({NoFile}, OutageIntents, {90})
    /\ workers = <<>>
    /\ streak = 0
    /\ SidecarsIdle

NextOutage ==
    \/ Tick
    \/ AllowRequest
    \/ ForceOpen
    \/ EvaluateIntent

SpecOutage == InitOutage /\ [][NextOutage]_vars

(***************************************************************************)
(* Properties                                                              *)
(***************************************************************************)
IsEvaluate == ret.op = "evaluate_intent"

\* What the pipeline decides for the present request without panic under
\* policy pol.
WouldDecide(pol) ==
    Pipeline(request.intent, request.reputation, FALSE, pol, last_qos,
             breaker, now).decision

LastEntry == chain[Len(chain)]

\* C1: every evaluate_intent call with is_panic = true decides REJECTED, for
\* every intent, reputation, policy, cached QoS adjustment and breaker
\* state; the audited record carries the same decision.
C1_PanicRejects ==
    (IsEvaluate /\ ret.is_panic) =>
        /\ ret.result.decision = "REJECTED"
        /\ LastEntry.data.decision = "REJECTED"

\* A panic call for a request that would have been approved without panic.
C1_Witness ==
    /\ IsEvaluate
    /\ ret.is_panic
    /\ ~ret.raised
    /\ WouldDecide(policy) = "APPROVED"

\* C2: while the policy's mode is FORENSIC, every evaluate_intent call
\* decides REJECTED, whatever the intent and the reputation.
C2_ForensicRejects ==
    (IsEvaluate /\ policy.mode = "FORENSIC") =>
        /\ ret.result.decision = "REJECTED"
        /\ LastEntry.data.decision = "REJECTED"

\* A FORENSIC call without panic for a request every later gate would pass.
C2_Witness ==
    /\ IsEvaluate
    /\ ~ret.is_panic
    /\ ~ret.raised
    /\ policy.mode = "FORENSIC"
    /\ WouldDecide([policy EXCEPT !.mode = "PRODUCTION"]) = "APPROVED"

DecisionEntries == SelectSeq(chain, LAMBDA e : e.event_type = "decision")

\* C3: every evaluate_intent call appends exactly one 'decision' entry, so
\* the decision entries are, in order, the entries of the calls made so far
\* (the j-th decision entry belongs to the j-th trace), and the entry of
\* the call that just finished is the last of the chain and holds its trace.
C3_OneDecisionEntryPerCall ==
    /\ Len(DecisionEntries) = Len(traces)
    /\ \A j \in 1..Len(DecisionEntries) :
          /\ DecisionEntries[j].alias = j
          /\ DecisionEntries[j].data.intent_id = traces[j].intent_id
    /\ IsEvaluate =>
          /\ LastEntry.event_type = "decision"
          /\ LastEntry.alias = ret.trace
          /\ LastEntry.data = to_dict(ret.result)

\* Two calls have returned, the second on the load-shedding path.
C3_Witness ==
    /\ IsEvaluate
    /\ Len(traces) = 2
    /\ Len(DecisionEntries) = 2
    /\ ShedGate(last_qos, request.intent)
    /\ ~ret.is_panic

\* The in-memory chain is the one the append calls built (no reload of a
\* damaged file has replaced it).
BuiltByAppends == fault.kind = "none" \/ ~fault.loaded

\* C4: starting from an empty chain, after any sequence of append calls the
\* entry at index i has sequence i, entry 0 has prev_hash GENESIS, every
\* later entry's prev_hash is the previous entry's entry_hash, last_hash is
\* the last entry's entry_hash and verify_chain() returns (true, none).
C4_AppendBuildsLinkedChain ==
    BuiltByAppends =>
        /\ \A i \in 1..Len(chain) : chain[i].sequence = i - 1
        /\ (chain # <<>> => chain[1].prev_hash = GENESIS_HASH)
        /\ \A i \in 2..Len(chain) : chain[i].prev_hash = chain[i - 1].entry_hash
        /\ last_hash = (IF chain = <<>> THEN GENESIS_HASH ELSE LastEntry.entry_hash)
        /\ sequence = Len(chain)
        /\ verify_chain(chain, traces) = <<TRUE, -1>>

\* Three appends of three different event types.
C4_Witness ==
    /\ ret.op = "append"
    /\ BuiltByAppends
    /\ Len(chain) = 3
    /\ Cardinality({chain[i].event_type : i \in 1..3}) = 3

FieldFaults == {"data", "prev_hash", "entry_hash"}

\* C5: when the data, the prev_hash or the entry_hash of the entry at index
\* k of a valid chain was changed, verify_chain() on the reloaded chain
\* returns (false, i) with i <= k.
C5_FieldChangeDetected ==
    (fault.kind \in FieldFaults /\ fault.loaded) =>
        LET v == verify_chain(chain, traces)
        IN /\ v[1] = FALSE
           /\ v[2] >= 0
           /\ v[2] <= fault.idx

\* The data of the middle entry of three was changed and the file reloaded.
C5_Witness ==
    /\ ret.op = "reopen"
    /\ fault.kind = "data"
    /\ fault.loaded
    /\ fault.idx = 1
    /\ Len(chain) = 3

\* C6 (as claimed): an audit entry never changes after it was appended, so
\* after any sequence of evaluate_intent, manual_override and reload_policy
\* calls every entry still holds the data it was hashed with and
\* verify_chain() on the in-memory chain returns (true, none).
C6_AuditedEntryNeverChanges ==
    /\ \A i \in 1..Len(chain) : CurData(chain[i], traces) = chain[i].data
    /\ verify_chain(chain, traces) = <<TRUE, -1>>

\* C7 (as claimed): when an entry (first, middle, or the most recent ones)
\* was deleted from the log file, verify_chain() on the reloaded chain
\* returns (false, i).
C7_DeletionDetected ==
    (fault.kind \in {"delete", "delete_tail"} /\ fault.loaded) =>
        verify_chain(chain, traces)[1] = FALSE

\* C8: reopening a log file that holds all N appended entries yields the
\* same entries and the same last_hash, verify_chain() returns (true, none)
\* and sequence is N, so that the next append gets sequence N and prev_hash
\* equal to that last_hash.
C8_ReopenRoundTrip ==
    [][ /\ (ret'.op = "reopen" /\ fault.kind = "none") =>
              /\ chain' = chain
              /\ last_hash' = last_hash
              /\ sequence' = Len(chain)
              /\ loadOK'
              /\ verify_chain(chain', traces') = <<TRUE, -1>>
        /\ (ret.op = "reopen" /\ ret'.op = "append" /\ fault.kind = "none") =>
              /\ Len(chain') = Len(chain) + 1
              /\ chain'[Len(chain')].sequence = Len(chain)
              /\ chain'[Len(chain')].prev_hash = last_hash
      ]_vars

\* A file of two persisted entries has just been reopened.
C8_Witness ==
    /\ ret.op = "reopen"
    /\ fault.kind = "none"
    /\ Len(chain) = 2
    /\ Len(disk) = 2

\* C9 (as claimed): once the chain replayed from disk failed verification,
\* no call extends the chain.
C9_NoAppendAfterFailedLoad ==
    [][ (~loadOK /\ ret'.op # "reopen") => Len(chain') <= Len(chain) ]_vars

\* C10 (as claimed): when persisting the record of an evaluate_intent call
\* fails, the entry is still in the in-memory chain, last_hash and sequence
\* have advanced, and the call returns without raising.
C10_PersistFailureNeverRaises ==
    (IsEvaluate /\ fault.kind = "lost_write" /\ fault.idx = sequence - 1) =>
        /\ LastEntry.sequence = fault.idx
        /\ last_hash = LastEntry.entry_hash
        /\ ~ret.raised

\* No append call is in flight on any worker.
NoCallInFlight == \A w \in Workers : workers[w].pc = "idle"

\* C11 (as claimed): when workers call append concurrently, with their steps
\* interleaved, the entries still carry the sequence numbers 0..N-1 in
\* order, the counter equals N and verify_chain() returns (true, none).
C11_ConcurrentAppendsSerialised ==
    NoCallInFlight =>
        /\ \A i \in 1..Len(chain) : chain[i].sequence = i - 1
        /\ sequence = Len(chain)
        /\ verify_chain(chain, traces) = <<TRUE, -1>>

\* The policies a reload can publish, and the constructor's default.
Publishable ==
    {BuildPolicy(c) : c \in {f \in ConfigFiles : Loadable(f)}}
        \cup {DefaultPolicy("PRODUCTION")}

\* C12 (as claimed): an evaluate_intent call that was in flight while
\* reload_policy published a policy returns the trace that the pipeline
\* yields under one single policy: recorded mode, posture and profile, the
\* gates, the fuel budget and the weights all come from the same snapshot.
C12_SingleSnapshot ==
    IsEvaluate =>
        \E p \in Publishable :
            ret.result = Finalize(Pipeline(request.intent, request.reputation,
                                           FALSE, p, last_qos, breaker,
                                           ret.result.timestamp), p)

\* The trace t carries a reason of the given kind.
HasReason(t, kind) == \E j \in 1..Len(t.reasons) : t.reasons[j].kind = kind

\* The call that just finished returned a trace (it did not raise inside
\* the pipeline); a failure of the audit write is ret.error = "OSError".
Returned == IsEvaluate /\ ret.error \in {"", "OSError"}

\* C13 (as claimed): a trace rejected for a missing required signature
\* carries risk_score 1.0, and a trace rejected because the reputation is
\* below the posture minimum carries risk_score 0.9, in the returned trace
\* and in the audited record.
C13_GateRiskScore ==
    Returned =>
        /\ HasReason(ret.result, "Missing signature") =>
              /\ ret.result.risk_score = 10000
              /\ LastEntry.data.risk_score = 10000
        /\ HasReason(ret.result, "Actor reputation") =>
              /\ ret.result.risk_score = 9000
              /\ LastEntry.data.risk_score = 9000

\* The call that just finished got past every gate: no panic, mode not
\* FORENSIC, not shed, signature and reputation satisfied, fuel in budget.
PassedEveryGate ==
    /\ Returned
    /\ PassesGates(request.intent, request.reputation, ret.is_panic, policy,
                   last_qos)
    /\ ~FuelGate(policy, last_qos, request.intent)

\* 1 - clamp(w_sem * semantic_risk + w_beh * behavioral_risk
\*           + w_rep * (1 - reputation), 0, 1), in ten-thousandths.
ClaimedConfidence(t, pol) ==
    LET weighted == pol.risk_weight_semantic * t.semantic_risk
                    + pol.risk_weight_behavioral * t.behavioral_risk
                    + pol.risk_weight_reputation * (100 - t.actor_reputation)
    IN 10000 - (IF weighted < 0 THEN 0
                ELSE IF weighted > 10000 THEN 10000 ELSE weighted)

\* C14: for an intent that passes every gate the decision is APPROVED iff
\* confidence_score >= 0.7, QUARANTINED iff 0.4 <= confidence_score < 0.7
\* and REJECTED iff confidence_score < 0.4, where confidence_score is one
\* minus the clamped weighted risk.
C14_ConfidenceThresholds ==
    PassedEveryGate =>
        LET t == ret.result
            c == ClaimedConfidence(t, policy)
        IN /\ t.confidence_score = c
           /\ t.decision = "APPROVED" <=> c >= 7000
           /\ t.decision = "QUARANTINED" <=> (c >= 4000 /\ c < 7000)
           /\ t.decision = "REJECTED" <=> c < 4000

\* A request whose confidence is exactly 0.4 was quarantined.
C14_Witness ==
    /\ PassedEveryGate
    /\ ret.result.confidence_score = 4000
    /\ ret.result.decision = "QUARANTINED"

\* C15: update_qos with a queue depth above twice the backpressure
\* threshold yields shed_low_priority = true and load level OVERLOAD; the
\* cached adjustment stays until the next update_qos; while it sheds, every
\* evaluate_intent of a low-priority intent (no panic, mode not FORENSIC) is
\* REJECTED with the load-shedding reason; an intent of another priority or
\* of none never gets that reason.
C15_ShedUntilNextUpdate ==
    [][ /\ (ret'.op = "update_qos"
              /\ ret'.metrics.queue_depth > 2 * qos_cfg.backpressure_threshold) =>
               /\ last_qos'.shed_low_priority
               /\ last_qos'.load_level = "overload"
        /\ ret'.op # "update_qos" => last_qos' = last_qos
        /\ (ret'.op = "evaluate_intent" /\ ~ret'.is_panic
              /\ policy.mode # "FORENSIC" /\ last_qos.shed_low_priority
              /\ IntentGet(request.intent, "priority", "normal") = "low") =>
               /\ ret'.result.decision = "REJECTED"
               /\ HasReason(ret'.result, "Load shedding")
        /\ (ret'.op = "evaluate_intent"
              /\ IntentGet(request.intent, "priority", "normal") # "low") =>
               ~HasReason(ret'.result, "Load shedding")
      ]_vars

\* Two low-priority intents in a row were shed under the same cached
\* adjustment.
C15_Witness ==
    /\ IsEvaluate
    /\ Len(traces) = 2
    /\ \A k \in 1..2 : HasReason(traces[k], "Load shedding")
    /\ last_qos.shed_low_priority
    /\ ~ret.is_panic

\* The rejection reasons of the gates, in the order of the pipeline.
GateReasons ==
    <<"PANIC", "FORENSIC", "Load shedding", "Missing signature",
      "Actor reputation", "Fuel limit exceeded">>

\* The gates the present request fails under the present policy, cached
\* adjustment and panic flag of the last call (indices into GateReasons).
FailingGates ==
    {g \in 1..6 :
        CASE g = 1 -> ret.is_panic
          [] g = 2 -> policy.mode = "FORENSIC"
          [] g = 3 -> ShedGate(last_qos, request.intent)
          [] g = 4 -> SignatureGate(policy, request.intent)
          [] g = 5 -> ReputationGate(policy, request.reputation)
          [] g = 6 -> FuelGate(policy, last_qos, request.intent)}

\* C16: the pipeline is ordered and short-circuiting: for an intent that
\* fails one or several gates, the returned trace is REJECTED by the first
\* failing gate in the order panic, FORENSIC, load shedding, signature,
\* reputation, fuel; its reasons hold the rejection reason of that gate and
\* of no other gate, and no threshold verdict.
C16_FirstFailingGateDecides ==
    (Returned /\ FailingGates # {}) =>
        LET first == CHOOSE g \in FailingGates : \A h \in FailingGates : g <= h
        IN /\ ret.result.decision = "REJECTED"
           /\ HasReason(ret.result, GateReasons[first])
           /\ \A g \in 1..6 : g # first => ~HasReason(ret.result, GateReasons[g])
           /\ ~HasReason(ret.result, "quarantined")
           /\ ~HasReason(ret.result, "below threshold")

\* A call without panic for an intent that fails the shedding, signature,
\* reputation and fuel gates at once.
C16_Witness ==
    /\ Returned
    /\ FailingGates = {3, 4, 5, 6}

\* C17 (as claimed): an intent whose fields are missing or of the wrong
\* type never makes the decision path raise: evaluate_intent returns a
\* trace with a decision among APPROVED, QUARANTINED and REJECTED.
C17_BadFieldNeverRaises ==
    (IsEvaluate /\ (request.intent.missing \cup request.intent.bad) # {}) =>
        /\ ret.error \notin {"AttributeError", "TypeError"}
        /\ ret.result.decision \in {"APPROVED", "QUARANTINED", "REJECTED"}

\* C18: an OPEN breaker refuses every allow_request made before
\* recovery_timeout_s has elapsed since last_state_change and stays OPEN;
\* record_success and record_failure arriving meanwhile leave it OPEN with the
\* same last_state_change; a threshold trip, a failed probe and force_open
\* each enter OPEN with last_state_change set to the time of the call.
C18_OpenRefusesUntilTimeout ==
    /\ (ret.op = "allow_request" /\ ret.before.state = "OPEN"
            /\ now - ret.before.last_state_change < recovery_timeout_s)
        => (~ret.result /\ breaker = ret.before)
    /\ (ret.op \in {"record_success", "record_failure"}
            /\ ret.before.state = "OPEN")
        => /\ breaker.state = "OPEN"
           /\ breaker.last_state_change = ret.before.last_state_change
    /\ (ret.op = "record_failure" /\ ret.before.state # "OPEN"
            /\ breaker.state = "OPEN")
        => breaker.last_state_change = now
    /\ ret.op = "force_open"
        => (breaker.state = "OPEN" /\ breaker.last_state_change = now)

\* A request was refused 20 seconds after the breaker went OPEN, a failure
\* having been recorded beyond the ones that tripped it.
C18_Witness ==
    /\ ret.op = "allow_request"
    /\ ret.before.state = "OPEN"
    /\ ~ret.result
    /\ now - ret.before.last_state_change = 20
    /\ breaker.total_trips = 1
    /\ breaker.failure_count = failure_threshold + 1

\* C19: with half_open_max_probes = 1, an allow_request made while the
\* breaker is HALF_OPEN (after the request that moved it there and before the
\* next recorded outcome) is refused.
C19_SingleProbe ==
    (ret.op = "allow_request" /\ ret.before.state = "HALF_OPEN")
        => ~ret.result

\* C20: a record_failure on a CLOSED breaker opens it exactly when it is the
\* failure_threshold-th failure with no success in between, and the trip adds
\* one to total_trips; a record_success on a CLOSED breaker resets
\* failure_count to zero.
C20_TripAtThreshold ==
    /\ (ret.op = "record_failure" /\ ret.before.state = "CLOSED")
        => /\ breaker.state \in {"CLOSED", "OPEN"}
           /\ (breaker.state = "OPEN") <=> (streak >= failure_threshold)
           /\ breaker.total_trips = ret.before.total_trips
                  + (IF breaker.state = "OPEN" THEN 1 ELSE 0)
    /\ (ret.op = "record_success" /\ ret.before.state = "CLOSED")
        => (breaker.state = "CLOSED" /\ breaker.failure_count = 0)

\* The breaker tripped a second time, on the failure_threshold-th failure in
\* a row since it had closed again.
C20_Witness ==
    /\ ret.op = "record_failure"
    /\ ret.before.state = "CLOSED"
    /\ breaker.state = "OPEN"
    /\ streak = failure_threshold
    /\ breaker.total_trips = 2

\* C21: a record_success that brings a HALF_OPEN breaker's success_count to
\* half_open_max_probes closes it with failure_count = 0 and success_count = 0;
\* a breaker that has tripped before and is CLOSED again opens on a
\* record_failure only when failure_threshold failures in a row have been
\* recorded since, starting from a count of zero.
C21_RecoveryResets ==
    /\ (ret.op = "record_success" /\ ret.before.state = "HALF_OPEN"
            /\ ret.before.success_count + 1 >= half_open_max_probes)
        => /\ breaker.state = "CLOSED"
           /\ breaker.failure_count = 0
           /\ breaker.success_count = 0
           /\ breaker.total_trips = ret.before.total_trips
    /\ (ret.op = "record_failure" /\ ret.before.state = "CLOSED"
            /\ ret.before.total_trips >= 1 /\ breaker.state = "OPEN")
        => /\ streak >= failure_threshold
           /\ breaker.failure_count = failure_threshold

\* A breaker tripped by failure_threshold failures was closed again by a
\* successful probe.
C21_Witness ==
    /\ ret.op = "record_success"
    /\ ret.before.state = "HALF_OPEN"
    /\ ret.before.failure_count = failure_threshold
    /\ ret.before.total_trips = 1
    /\ breaker.state = "CLOSED"

\* C22: whenever the thresholds are positive, the adjustment update_qos
\* returns has speed_multiplier, fuel_multiplier and rate_limit_multiplier
\* greater than 0 and at most 1 (1000 thousandths).
C22_MultipliersInRange ==
    (ret.op = "update_qos" /\ qos_cfg.backpressure_threshold > 0)
        => /\ last_qos.speed_multiplier > 0 /\ last_qos.speed_multiplier <= 1000
           /\ last_qos.fuel_multiplier > 0 /\ last_qos.fuel_multiplier <= 1000
           /\ last_qos.rate_limit_multiplier > 0
           /\ last_qos.rate_limit_multiplier <= 1000

IsFeedbackEvaluate == ret.op = "feedback_evaluate"

\* C23: an evaluate call made less than cooldown_s after the latest action
\* evaluate returned gives none, whatever it was called with; a call that
\* returns an action stamps last_adaptation_time with the time of the call and
\* adds one to total_adaptations.
C23_CooldownSilences ==
    /\ (IsFeedbackEvaluate /\ ret.acted_before >= 0
            /\ now < ret.acted_before + cooldown_s)
        => (ret.result = NoAction /\ acted = ret.acted_before)
    /\ (IsFeedbackEvaluate /\ ret.result # NoAction)
        => /\ loop.last_adaptation_time = now
           /\ loop.total_adaptations = ret.adaptations_before + 1
           /\ loop.last_action = ret.result.name

\* Thirty seconds after an action, an evaluate call under CPU overload with
\* the TURBO profile and a full window of observations returned none.
C23_Witness ==
    /\ IsFeedbackEvaluate
    /\ ret.acted_before >= 0
    /\ now = ret.acted_before + 30
    /\ ret.observed >= min_observations
    /\ ret.cpu_usage > cpu_overload_threshold
    /\ ret.performance = "TURBO"
    /\ ret.result = NoAction

\* C24: an evaluate call whose windowed rejection rate lies in [0.05, 0.40]
\* returns no action with a security posture; security_lockdown is returned
\* only with a rate above 0.40 and a current posture other than LOCKDOWN,
\* security_recovery only with a rate below 0.05 and the posture LOCKDOWN.
C24_Hysteresis ==
    IsFeedbackEvaluate =>
        LET r == ret.result
            rej == 100 * ret.rejected
            obs == ret.observed
        IN /\ (obs > 0 /\ rejection_rate_recovery * obs <= rej
                  /\ rej <= rejection_rate_lockdown * obs)
              => r.security = ""
           /\ r.security # "" => r.name \in {"security_lockdown", "security_recovery"}
           /\ r.name = "security_lockdown"
              => /\ r.security = "LOCKDOWN"
                 /\ obs > 0 /\ rej > rejection_rate_lockdown * obs
                 /\ ret.security # "LOCKDOWN"
           /\ r.name = "security_recovery"
              => /\ r.security = "GUARDED"
                 /\ obs > 0 /\ rej < rejection_rate_recovery * obs
                 /\ ret.security = "LOCKDOWN"

\* Outside any cooldown, with nothing to adapt on the performance axis, a
\* rejection rate of exactly 0.05 under LOCKDOWN got no action.
C24_Witness ==
    /\ IsFeedbackEvaluate
    /\ ret.acted_before = -1
    /\ ret.observed = min_observations
    /\ 100 * ret.rejected = rejection_rate_recovery * ret.observed
    /\ ret.security = "LOCKDOWN"
    /\ ret.performance = "BALANCED"
    /\ ret.cpu_usage < cpu_idle_threshold
    /\ ret.latency_sum < latency_healthy_ms * ret.observed
    /\ ret.result = NoAction

\* The performance adaptation is due for the call recorded in ret.
PerformanceDue ==
    \/ /\ \/ ret.cpu_usage > cpu_overload_threshold
          \/ ret.latency_sum > latency_overload_ms * ret.observed
       /\ ret.performance # "ECO"
    \/ /\ ret.cpu_usage < cpu_idle_threshold
       /\ ret.latency_sum < latency_healthy_ms * ret.observed
       /\ ret.performance = "ECO"

\* C25: a returned action sets at most one axis and never proposes TURBO; a
\* performance action is ECO when the current profile is not ECO, or BALANCED
\* when the current profile is ECO; no security action is returned by a call
\* in which a performance adaptation is due.
C25_NeverTurbo ==
    IsFeedbackEvaluate =>
        LET r == ret.result
        IN /\ r.performance \in {"", "ECO", "BALANCED"}
           /\ ~(r.performance # "" /\ r.security # "")
           /\ r # NoAction => (r.performance # "" \/ r.security # "")
           /\ r.performance = "ECO" => ret.performance # "ECO"
           /\ r.performance = "BALANCED" => ret.performance = "ECO"
           /\ r.security # "" => ~PerformanceDue

\* A downshift to ECO was returned from TURBO by a call whose rejection rate
\* also called for a lockdown.
C25_Witness ==
    /\ IsFeedbackEvaluate
    /\ ret.result.name = "performance_downshift"
    /\ ret.performance = "TURBO"
    /\ ret.security = "GUARDED"
    /\ 100 * ret.rejected > rejection_rate_lockdown * ret.observed

\* The file at config_path is the one the current policy was loaded from.
FileUnchanged ==
    /\ Loadable(cfg)
    /\ policy = BuildPolicy(cfg)
    /\ policy_hash = compute_file_hash(cfg)

\* C26: reload_policy called on the file the current policy was loaded from
\* returns true, leaves the policy and the policy hash as they are, and appends
\* exactly one policy_reload entry carrying that hash and the mode.
C26_ReloadIdempotent ==
    [][(ret'.op = "reload_policy" /\ FileUnchanged)
        => /\ ret'.result
           /\ policy' = policy
           /\ policy_hash' = policy_hash
           /\ Len(chain') = Len(chain) + 1
           /\ chain'[Len(chain')].event_type = "policy_reload"
           /\ chain'[Len(chain')].data =
                  [policy_hash |-> policy_hash, mode |-> policy.mode]]_vars

\* C27: a reload_policy that returns false leaves the engine's policy as it
\* was before the call.
C27_FailedReloadKeepsPolicy ==
    [][(ret'.op = "reload_policy" /\ ~ret'.result) => policy' = policy]_vars

\* The file is a mapping with an unknown mode, security_posture or
\* performance_profile.
HasUnknownEnum(c) ==
    /\ c.kind = "mapping"
    /\ \/ "mode" \in c.has /\ Upper(c.val.mode) \notin Modes
       \/ "security_posture" \in c.has /\ Upper(c.val.security_posture) \notin Postures
       \/ "performance_profile" \in c.has
              /\ Upper(c.val.performance_profile) \notin Profiles

\* C28: reload_policy on a file with an unknown enum value returns false and
\* keeps the policy that was current before the call.
C28_UnknownEnumRejected ==
    [][(ret'.op = "reload_policy" /\ HasUnknownEnum(cfg))
        => (~ret'.result /\ policy' = policy)]_vars

\* C29: after a reload_policy that returned true, the three risk weights of
\* the current policy sum to 1.0 (100 hundredths).
C29_WeightsSumToOne ==
    (ret.op = "reload_policy" /\ ret.result)
        => policy.risk_weight_semantic + policy.risk_weight_behavioral
               + policy.risk_weight_reputation = 100

\* C30: under a policy with allow_manual_override = false, manual_override
\* returns the trace as it was, changes no trace and appends no audit entry;
\* under a policy that allows it, the trace's decision is replaced by the new
\* one, overridden, override_by and override_justification are stamped, and
\* exactly one entry, of type 'override', is appended.
C30_OverrideFrame ==
    [][ret'.op = "manual_override" =>
        IF ~policy.allow_manual_override
        THEN /\ traces' = traces
             /\ chain' = chain
             /\ ret'.result = traces[ret'.trace]
        ELSE LET e == chain'[Len(chain')]
                 t == traces'[ret'.trace]
             IN /\ Len(chain') = Len(chain) + 1
                /\ SubSeq(chain', 1, Len(chain)) = chain
                /\ e.event_type = "override"
                /\ t.decision = e.data.action
                /\ t.overridden
                /\ t.override_by = e.data.operator
                /\ t.override_justification = e.data.justification
                /\ \A j \in 1..Len(traces) : j # ret'.trace => traces'[j] = traces[j]
      ]_vars

\* An override was refused under a policy that forbids it: the trace the
\* caller holds kept its decision and carries no override.
C30_Witness ==
    /\ ret.op = "manual_override"
    /\ ~policy.allow_manual_override
    /\ ~ret.applied
    /\ ~traces[ret.trace].overridden
    /\ traces[ret.trace].decision \in {"APPROVED", "QUARANTINED", "REJECTED"}
    /\ \A i \in 1..Len(chain) : chain[i].event_type # "override"


\* C31: when the lock file is present at a check and the switch is not
\* active, the check leaves it active with activated_by = "file"; with
\* auto-clear disabled, is_active answers true whenever the lock file is
\* present.
C31_LockFileActivates ==
    (ret.op = "panic_check" /\ ret.lock_before.exists) =>
        /\ ~ret.before.active =>
              /\ panic.active
              /\ panic.activated_by = "file"
              /\ panic.activated_at = now
              /\ ret.result
        /\ panic.auto_clear_s = 0 => ret.result

C31_Witness ==
    /\ ret.op = "panic_check"
    /\ ret.lock_before.exists
    /\ ~ret.before.active
    /\ ret.before.activated_by = "api"
    /\ panic.active
    /\ panic.activated_by = "file"
    /\ panic.reason = "ops says stop"

\* C32: a deactivation of an active switch, by deactivate() or by
\* auto-clear, leaves the lock file removed and the switch inactive, so that
\* the next check answers false unless the file is created again.
C32_DeactivateRemovesLock ==
    /\ (ret.op = "deactivate" /\ ret.before.active) => (~panic.active /\ ~lock.exists)
    /\ (ret.op = "panic_check" /\ ret.cleared) => (~ret.result /\ ~lock.exists)
    /\ (ret.op = "panic_check" /\ ~ret.before.active /\ ~ret.lock_before.exists)
          => ~ret.result

\* Until deactivate() or the auto-clear deadline, every check of an active
\* switch answers true.
C32_ActiveUntilCleared ==
    (ret.op = "panic_check" /\ ret.before.active /\ ~ret.cleared) => ret.result

\* C33: every activation of the switch is followed by a "panic" entry in
\* the audit chain.
C33_ActivationAudited ==
    panic.active ~> (\E i \in 1..Len(chain) : chain[i].event_type = "panic")

\* The intent of the call that just returned went past the five gates.
PastGates ==
    PassesGates(request.intent, request.reputation, ret.is_panic, policy, last_qos)

\* C34: while the breaker is OPEN, an intent that passes the gates gets
\* semantic_risk = 0.3 whatever its action, requires_admin and scope, its
\* trace carries the fallback reason, and the semantic assessment is
\* skipped: no success is counted on the breaker.
C34_OpenBreakerFallback ==
    (IsEvaluate /\ ~ret.raised /\ breaker.state = "OPEN" /\ PastGates) =>
        /\ ret.result.semantic_risk = 30
        /\ HasReason(ret.result, "SSAI breaker OPEN")
        /\ ret.result.reasons[1].kind = "SSAI breaker OPEN"
        /\ breaker.success_count = 0

C34_Witness ==
    /\ IsEvaluate
    /\ ~ret.raised
    /\ breaker.state = "OPEN"
    /\ PastGates
    /\ assess_semantic_risk(request.intent) = 80
    /\ ret.result.semantic_risk = 30
    /\ ret.result.decision # "REJECTED"

\* C37: evaluate_intent never moves the breaker out of OPEN.  However long
\* ago it opened, a call leaves the breaker as it was and scores the intent
\* with the fallback semantic_risk.
C37_EngineNeverProbes ==
    [][(ret'.op = "evaluate_intent" /\ breaker.state = "OPEN") =>
          /\ breaker' = breaker
          /\ (~ret'.raised /\ PassesGates(request.intent, request.reputation,
                                          ret'.is_panic, policy, last_qos))
                => ret'.result.semantic_risk = 30]_vars

C37_Witness ==
    /\ IsEvaluate
    /\ ~ret.raised
    /\ PastGates
    /\ breaker.state = "OPEN"
    /\ now - breaker.last_state_change > recovery_timeout_s
    /\ ret.result.timestamp = now
    /\ ret.result.semantic_risk = 30

\* The values a policy file can give to min_reputation (hundredths).
OtherMinReputations == {0, 50, 100}

\* C39: the policy fields require_signed_intents and min_reputation do not
\* influence a decision: an engine whose policy differs from this one only
\* in these two fields returns the same decision and the same reasons for
\* the same call.
C39_PolicyFieldsInert ==
    Returned =>
        \A s \in BOOLEAN, mr \in OtherMinReputations :
            LET p2 == [policy EXCEPT !.require_signed_intents = s,
                                     !.min_reputation = mr]
                t2 == Finalize(Pipeline(request.intent, request.reputation,
                                        ret.is_panic, p2, last_qos, breaker,
                                        ret.result.timestamp), p2)
            IN /\ t2.decision = ret.result.decision
               /\ t2.reasons = ret.result.reasons

\* An unsigned intent approved under the OPEN posture by an engine whose
\* policy asks for signatures, and an intent approved from an actor whose
\* reputation is below the policy's min_reputation.
C39_Witness ==
    /\ Returned
    /\ ret.result.decision = "APPROVED"
    /\ policy.security_posture = "OPEN"
    /\ policy.require_signed_intents
    /\ ~IntentGet(request.intent, "signature", FALSE)
    /\ request.reputation < policy.min_reputation

\* The breaker operation that just returned, with the breaker as it was
\* before the call.
IsBreakerCall == ret.op \in {"allow_request", "record_success", "record_failure"}

\* C35: a HALF_OPEN breaker has success_count <= half_open_max_probes, and
\* right after any state transition success_count = 0 and
\* last_state_change is the time of the transition.
C35_TransitionResets ==
    /\ breaker.state = "HALF_OPEN" => breaker.success_count <= half_open_max_probes
    /\ (IsBreakerCall /\ breaker.state # ret.before.state) =>
          (breaker.success_count = 0 /\ breaker.last_state_change = now)
    /\ ret.op \in {"force_open", "force_close"} =>
          (breaker.success_count = 0 /\ breaker.last_state_change = now)

C35_Witness ==
    /\ ret.op = "record_success"
    /\ ret.before.state = "HALF_OPEN"
    /\ ret.before.last_state_change < now
    /\ breaker.state = "CLOSED"
    /\ breaker.success_count = 0
    /\ breaker.last_state_change = now

C38_ClosedBelowThreshold ==
    breaker.state = "CLOSED" => breaker.failure_count < failure_threshold

C38_Witness ==
    /\ ret.op = "record_failure"
    /\ ret.before.state = "CLOSED"
    /\ ret.before.failure_count = failure_threshold - 1
    /\ breaker.state = "OPEN"
    /\ breaker.failure_count = failure_threshold

\* The chain in memory lost the write of entry fault.idx and was not
\* reopened since.
LostWritePending == fault.kind = "lost_write" /\ ~fault.loaded

\* C40: when the record of entry k was not written and a later entry was,
\* the chain reopened from the log file verifies as (false, k); when only
\* the most recent entry was lost, the reopened chain is shorter and
\* verifies as (true, none).
C40_LostWriteOnRestart ==
    [][(ret'.op = "reopen" /\ LostWritePending) =>
          IF Len(chain) > fault.idx + 1
          THEN verify_chain(chain', traces') = <<FALSE, fault.idx>>
          ELSE /\ verify_chain(chain', traces') = <<TRUE, -1>>
               /\ chain' = SubSeq(chain, 1, Len(chain) - 1)]_vars

C40_Witness ==
    /\ ret.op = "reopen"
    /\ fault.kind = "lost_write"
    /\ fault.idx = 1
    /\ Len(chain) = 2
    /\ chain[2].sequence = 2
    /\ verify_chain(chain, traces) = <<FALSE, 1>>
    /\ ~loadOK
====
